---- MODULE Spec2Model ----
(***************************************************************************)
(* Model of the blockit ledger: Transaction<T>, Block<T>, Chain<T> and the *)
(* Authenticator (EntityManager) owned by a Chain.                          *)
(*                                                                         *)
(* Strings of the program are TLA+ strings; operator<< on a stringstream   *)
(* is string concatenation and an integer is written in decimal.  The hash *)
(* of the lockey library is modelled as a collision-free function of its   *)
(* input.  A payload T is represented by the string its to_string()        *)
(* returns.  A signature is a string of bytes, "" being the empty vector.  *)
(***************************************************************************)
EXTENDS Integers, Sequences, FiniteSets, TLC

VARIABLES blocks_, entity_manager_, last, admitted, calls

vars == <<blocks_, entity_manager_, last, admitted, calls>>

----------------------------------------------------------------------------
(* Bounds of the model *)

\* largest number of transactions in a candidate block
MaxTx == 2
\* largest number of blocks a chain grows to
MaxBlocks == 3
\* largest length of one participant's capability vector
MaxCaps == 1
\* largest number of transactions a block is constructed from
MaxRecords == 5
\* largest length of a capability vector in the Authenticator state machine
MaxGrants == 2

(* Program constants *)
PriorityMin == 0
PriorityMax == 255
DefaultPriority == 100

(* Input alphabets *)
TxIds == {"g", "t1"}
Uuids == TxIds \cup {""}
Payloads == {"op", ""}
Priorities == {PriorityMin - 1, DefaultPriority, PriorityMax + 1}
CandidatePriorities == {DefaultPriority, PriorityMax + 1}
CandidatePayloads == {"op"}
TxTimes == {[sec |-> 1, nanosec |-> 5]}
BlockTimes == {[sec |-> 2, nanosec |-> 0]}
GenesisUuids == {"g"}
FreshUuid == "t1"
GenesisPayloads == {"op"}
GenesisPriorities == {DefaultPriority}
TamperPayloads == {"op", "", "x"}
Participants == {"p1"}
Issuers == {"p1", "p2"}
States == {"active"}
Capabilities == {"WRITE"}
RequiredCapabilities == Capabilities \cup {""}
MetaKeys == {"k"}
MetaValues == {"v"}

----------------------------------------------------------------------------
(* Hasher and Signer collaborators *)

\* lockey SHA-256 as hex: a collision-free function, never the empty string
Hash(data) == "H(" \o data \o ")"

\* Crypto::sign: some non-empty byte string determined by the data
Sign(data) == "S(" \o data \o ")"

----------------------------------------------------------------------------
(* MerkleTree *)

\* mutant: the last node of an odd level is carried up as it is
RECURSIVE CombineLevel_CarryLast(_)
CombineLevel_CarryLast(level) ==
    IF Len(level) = 0 THEN <<>>
    ELSE IF Len(level) = 1 THEN <<level[1]>>
    ELSE <<Hash(level[1] \o level[2])>> \o CombineLevel_CarryLast(SubSeq(level, 3, Len(level)))

RECURSIVE CombineLevel(_)
CombineLevel(level) ==
    IF Len(level) = 0 THEN <<>>
    ELSE IF Len(level) = 1 THEN <<Hash(level[1] \o level[1])>>
    ELSE <<Hash(level[1] \o level[2])>> \o CombineLevel(SubSeq(level, 3, Len(level)))

RECURSIVE ReduceLevels(_)
ReduceLevels(level) ==
    IF Len(level) = 1 THEN level[1] ELSE ReduceLevels(CombineLevel(level))

getRoot(leaves) ==
    IF Len(leaves) = 0 THEN ""
    ELSE ReduceLevels([i \in 1..Len(leaves) |-> Hash(leaves[i])])

\* the (sibling_hash, is_left) pairs from position k (counted from 0) of a level
\* up to the root; the last node of an odd level is its own sibling
RECURSIVE ProofFrom(_, _)
ProofFrom(level, k) ==
    IF Len(level) <= 1 THEN <<>>
    ELSE LET sibling == IF k % 2 = 1 THEN level[k]
                        ELSE IF k + 2 <= Len(level) THEN level[k + 2]
                        ELSE level[k + 1]
         IN  <<[sibling_hash |-> sibling, is_left |-> (k % 2 = 1)]>>
                 \o ProofFrom(CombineLevel(level), k \div 2)

getProof(leaves, index) ==
    IF index >= Len(leaves) THEN <<>>
    ELSE ProofFrom([i \in 1..Len(leaves) |-> Hash(leaves[i])], index)

\* recompute upward from a node hash along the proof
RECURSIVE Recompute(_, _)
Recompute(h, proof) ==
    IF proof = <<>> THEN h
    ELSE Recompute(IF Head(proof).is_left THEN Hash(Head(proof).sibling_hash \o h)
                   ELSE Hash(h \o Head(proof).sibling_hash),
                   Tail(proof))

\* mutant: the recomputation starts from the first sibling of the proof
verifyProof_FromSibling(leaf_value, index, proof, expected_root) ==
    IF proof = <<>> THEN Hash(leaf_value) = expected_root
    ELSE Recompute(Head(proof).sibling_hash, proof) = expected_root

verifyProof(leaf_value, index, proof, expected_root) ==
    Recompute(Hash(leaf_value), proof) = expected_root

----------------------------------------------------------------------------
(* Transaction<T> *)

Transaction(uuid, function, priority, ts) ==
    [timestamp_ |-> ts, priority_ |-> priority, uuid_ |-> uuid,
     function_ |-> function, signature_ |-> ""]

\* mutant: the signature is part of the string
toString_WithSignature(txn) ==
    ToString(txn.timestamp_.sec) \o ToString(txn.timestamp_.nanosec)
        \o ToString(txn.priority_) \o txn.uuid_ \o txn.function_ \o txn.signature_

toString(txn) ==
    ToString(txn.timestamp_.sec) \o ToString(txn.timestamp_.nanosec)
        \o ToString(txn.priority_) \o txn.uuid_ \o txn.function_

signTransaction(txn) == [txn EXCEPT !.signature_ = Sign(toString(txn))]

\* mutant: the upper limit of the priority is excluded
TxIsValid_Below255(txn) ==
    IF txn.uuid_ = "" \/ txn.function_ = "" \/ txn.signature_ = ""
       \/ txn.priority_ < PriorityMin \/ txn.priority_ >= PriorityMax
    THEN FALSE
    ELSE TRUE

TxIsValid(txn) ==
    IF txn.uuid_ = "" \/ txn.function_ = "" \/ txn.signature_ = ""
       \/ txn.priority_ < PriorityMin \/ txn.priority_ > PriorityMax
    THEN FALSE
    ELSE TRUE

----------------------------------------------------------------------------
(* Block<T> *)

txStrings(txns) == [i \in 1..Len(txns) |-> toString(txns[i])]

buildMerkleTree(b) == [b EXCEPT !.merkle_root_ = getRoot(txStrings(b.transactions_))]

calculateHash(b) ==
    Hash(ToString(b.index_) \o ToString(b.timestamp_.sec) \o ToString(b.timestamp_.nanosec)
            \o b.previous_hash_ \o ToString(b.nonce_) \o b.merkle_root_)

Block(txns, ts) ==
    LET b0 == [index_ |-> 0, previous_hash_ |-> "GENESIS", hash_ |-> "",
               transactions_ |-> txns, nonce_ |-> 0, timestamp_ |-> ts,
               merkle_root_ |-> ""]
        b1 == buildMerkleTree(b0)
    IN  [b1 EXCEPT !.hash_ = calculateHash(b1)]

\* mutant: the loop over the transactions is left out
BlockIsValid_NoTxCheck(b) ==
    IF b.index_ < 0 \/ b.previous_hash_ = "" \/ b.hash_ = "" THEN FALSE
    ELSE IF b.hash_ # calculateHash(b) THEN FALSE
    ELSE b.merkle_root_ = getRoot(txStrings(b.transactions_))

BlockIsValid(b) ==
    IF b.index_ < 0 \/ b.previous_hash_ = "" \/ b.hash_ = "" THEN FALSE
    ELSE IF b.hash_ # calculateHash(b) THEN FALSE
    ELSE IF b.merkle_root_ # getRoot(txStrings(b.transactions_)) THEN FALSE
    ELSE \A i \in 1..Len(b.transactions_) : TxIsValid(b.transactions_[i])

\* mutant: the proof is always taken for the first transaction
verifyTransaction_ProofOfFirst(b, transaction_index) ==
    IF transaction_index >= Len(b.transactions_) THEN FALSE
    ELSE LET tx_strings == txStrings(b.transactions_)
         IN  verifyProof(toString(b.transactions_[transaction_index + 1]), transaction_index,
                         getProof(tx_strings, 0), getRoot(tx_strings))

\* transaction_index counts from 0; the proof is verified against the root of
\* the tree built for the verification
verifyTransaction(b, transaction_index) ==
    IF transaction_index >= Len(b.transactions_) THEN FALSE
    ELSE LET tx_strings == txStrings(b.transactions_)
         IN  verifyProof(toString(b.transactions_[transaction_index + 1]), transaction_index,
                         getProof(tx_strings, transaction_index), getRoot(tx_strings))

----------------------------------------------------------------------------
(* Authenticator *)

Authenticator ==
    [authorized_participants_ |-> {}, used_transaction_ids_ |-> {},
     participant_states_ |-> <<>>, participant_capabilities_ |-> <<>>,
     participant_metadata_ |-> <<>>]

\* std::unordered_map: m[k] = v inserts or overwrites
MapPut(m, k, v) == [x \in DOMAIN m \cup {k} |-> IF x = k THEN v ELSE m[x]]

\* std::unordered_map: operator[] default-constructs a missing entry
MapGet(m, k, default) == IF k \in DOMAIN m THEN m[k] ELSE default

isParticipantAuthorized(em, participant_id) ==
    participant_id \in em.authorized_participants_

isTransactionUsed(em, tx_id) == tx_id \in em.used_transaction_ids_

\* mutant: assigns the set instead of inserting into it
markTransactionUsed_Replace(em, tx_id) ==
    [em EXCEPT !.used_transaction_ids_ = {tx_id}]

markTransactionUsed(em, tx_id) ==
    [em EXCEPT !.used_transaction_ids_ = @ \cup {tx_id}]

\* mutant: registration starts the participant with no capabilities
registerParticipant_ResetsCapabilities(em, participant_id, initial_state, metadata) ==
    LET e1 == [em EXCEPT !.authorized_participants_ = @ \cup {participant_id},
                         !.participant_states_ = MapPut(@, participant_id, initial_state),
                         !.participant_capabilities_ = MapPut(@, participant_id, <<>>)]
    IN  IF DOMAIN metadata # {}
        THEN [e1 EXCEPT !.participant_metadata_ = MapPut(@, participant_id, metadata)]
        ELSE e1

registerParticipant(em, participant_id, initial_state, metadata) ==
    LET e1 == [em EXCEPT !.authorized_participants_ = @ \cup {participant_id},
                         !.participant_states_ = MapPut(@, participant_id, initial_state)]
    IN  IF DOMAIN metadata # {}
        THEN [e1 EXCEPT !.participant_metadata_ = MapPut(@, participant_id, metadata)]
        ELSE e1

getParticipantState(em, participant_id) ==
    MapGet(em.participant_states_, participant_id, "unknown")

updateParticipantState(em, participant_id, new_state) ==
    IF ~isParticipantAuthorized(em, participant_id)
    THEN [ret |-> FALSE, em |-> em]
    ELSE [ret |-> TRUE,
          em |-> [em EXCEPT !.participant_states_ = MapPut(@, participant_id, new_state)]]

getParticipantMetadata(em, participant_id, key) ==
    IF participant_id \notin DOMAIN em.participant_metadata_ THEN ""
    ELSE MapGet(em.participant_metadata_[participant_id], key, "")

setParticipantMetadata(em, participant_id, key, value) ==
    IF isParticipantAuthorized(em, participant_id)
    THEN [em EXCEPT !.participant_metadata_ =
              MapPut(@, participant_id, MapPut(MapGet(@, participant_id, <<>>), key, value))]
    ELSE em

\* mutant: the capability is pushed without asking isParticipantAuthorized
grantCapability_NoGuard(em, participant_id, capability) ==
    [em EXCEPT !.participant_capabilities_ =
        MapPut(@, participant_id, Append(MapGet(@, participant_id, <<>>), capability))]

grantCapability(em, participant_id, capability) ==
    IF isParticipantAuthorized(em, participant_id)
    THEN [em EXCEPT !.participant_capabilities_ =
              MapPut(@, participant_id, Append(MapGet(@, participant_id, <<>>), capability))]
    ELSE em

\* mutant: only the first occurrence is erased
RECURSIVE Remove_FirstOnly(_, _)
Remove_FirstOnly(v, x) ==
    IF v = <<>> THEN <<>>
    ELSE IF Head(v) = x THEN Tail(v)
    ELSE <<Head(v)>> \o Remove_FirstOnly(Tail(v), x)

\* std::remove over the vector: drops every occurrence, keeps the order
RECURSIVE Remove(_, _)
Remove(v, x) ==
    IF v = <<>> THEN <<>>
    ELSE IF Head(v) = x THEN Remove(Tail(v), x)
    ELSE <<Head(v)>> \o Remove(Tail(v), x)

revokeCapability(em, participant_id, capability) ==
    IF isParticipantAuthorized(em, participant_id)
    THEN [em EXCEPT !.participant_capabilities_ =
              MapPut(@, participant_id, Remove(MapGet(@, participant_id, <<>>), capability))]
    ELSE em

hasCapability(em, participant_id, capability) ==
    IF participant_id \notin DOMAIN em.participant_capabilities_ THEN FALSE
    ELSE \E i \in 1..Len(em.participant_capabilities_[participant_id]) :
            em.participant_capabilities_[participant_id][i] = capability

\* mutant: the capability check is left out
validateAndRecordAction_NoCapCheck(em, issuer_participant, tx_id, required_capability) ==
    IF isTransactionUsed(em, tx_id) THEN [ret |-> FALSE, em |-> em]
    ELSE IF ~isParticipantAuthorized(em, issuer_participant) THEN [ret |-> FALSE, em |-> em]
    ELSE [ret |-> TRUE, em |-> markTransactionUsed(em, tx_id)]

\* mutant: the duplicate check is left out
validateAndRecordAction_NoDupCheck(em, issuer_participant, tx_id, required_capability) ==
    IF ~isParticipantAuthorized(em, issuer_participant) THEN [ret |-> FALSE, em |-> em]
    ELSE IF required_capability # "" /\ ~hasCapability(em, issuer_participant, required_capability)
         THEN [ret |-> FALSE, em |-> em]
    ELSE [ret |-> TRUE, em |-> markTransactionUsed(em, tx_id)]

validateAndRecordAction(em, issuer_participant, tx_id, required_capability) ==
    IF isTransactionUsed(em, tx_id) THEN [ret |-> FALSE, em |-> em]
    ELSE IF ~isParticipantAuthorized(em, issuer_participant) THEN [ret |-> FALSE, em |-> em]
    ELSE IF required_capability # "" /\ ~hasCapability(em, issuer_participant, required_capability)
         THEN [ret |-> FALSE, em |-> em]
    ELSE [ret |-> TRUE, em |-> markTransactionUsed(em, tx_id)]

----------------------------------------------------------------------------
(* Chain<T> *)

\* Chain(s_uuid, t_uuid, function, privateKey_, priority): signed genesis
ChainSigned(t_uuid, function, priority, txTime, blockTime) ==
    <<Block(<<signTransaction(Transaction(t_uuid, function, priority, txTime))>>, blockTime)>>

\* Chain(s_uuid, t_uuid, function, priority): the genesis transaction is not signed
ChainUnsigned(t_uuid, function, priority, txTime, blockTime) ==
    <<Block(<<Transaction(t_uuid, function, priority, txTime)>>, blockTime)>>

\* mutant: only the first transaction is looked up
AnyTransactionUsed_FirstOnly(em, txns) ==
    Len(txns) > 0 /\ isTransactionUsed(em, txns[1].uuid_)

\* the loop of addBlock over the candidate's transactions: first consumed uuid
AnyTransactionUsed(em, txns) ==
    \E i \in 1..Len(txns) : isTransactionUsed(em, txns[i].uuid_)

\* mutant: only the first transaction of an accepted block is marked
MarkAllUsed_FirstOnly(em, txns) ==
    IF txns = <<>> THEN em ELSE markTransactionUsed(em, Head(txns).uuid_)

RECURSIVE MarkAllUsed(_, _)
MarkAllUsed(em, txns) ==
    IF txns = <<>> THEN em
    ELSE MarkAllUsed(markTransactionUsed(em, Head(txns).uuid_), Tail(txns))

\* mutant: the nonce of the candidate is reset
Relink_ResetNonce(blocks, newBlock) ==
    [newBlock EXCEPT !.previous_hash_ = blocks[Len(blocks)].hash_,
                     !.index_ = blocks[Len(blocks)].index_ + 1,
                     !.nonce_ = 0]

\* mutant: the index of the candidate is kept
Relink_KeepIndex(blocks, newBlock) ==
    [newBlock EXCEPT !.previous_hash_ = blocks[Len(blocks)].hash_]

\* the copy of the candidate with the link fields taken from the tail
Relink(blocks, newBlock) ==
    [newBlock EXCEPT !.previous_hash_ = blocks[Len(blocks)].hash_,
                     !.index_ = blocks[Len(blocks)].index_ + 1]

\* mutant: transactions are marked used before the block is validated
addBlock_MarkBeforeValidate(blocks, em, newBlock) ==
    LET linked == Relink(blocks, newBlock)
        rebuilt == buildMerkleTree(linked)
        blockToAdd == [rebuilt EXCEPT !.hash_ = calculateHash(rebuilt)]
        marked == MarkAllUsed(em, blockToAdd.transactions_)
    IN  IF AnyTransactionUsed(em, linked.transactions_)
        THEN [ret |-> FALSE, out |-> "Duplicate transaction detected",
              blocks |-> blocks, em |-> em]
        ELSE IF ~BlockIsValid(blockToAdd)
        THEN [ret |-> FALSE, out |-> "Invalid block attempted to be added to the blockchain",
              blocks |-> blocks, em |-> marked]
        ELSE [ret |-> TRUE, out |-> "Adding block to chain",
              blocks |-> Append(blocks, blockToAdd), em |-> marked]

\* mutant: the content hash is not recomputed after relinking
addBlock_NoRehash(blocks, em, newBlock) ==
    LET linked == Relink(blocks, newBlock)
        blockToAdd == buildMerkleTree(linked)
    IN  IF AnyTransactionUsed(em, linked.transactions_)
        THEN [ret |-> FALSE, out |-> "Duplicate transaction detected",
              blocks |-> blocks, em |-> em]
        ELSE IF ~BlockIsValid(blockToAdd)
        THEN [ret |-> FALSE, out |-> "Invalid block attempted to be added to the blockchain",
              blocks |-> blocks, em |-> em]
        ELSE [ret |-> TRUE, out |-> "Adding block to chain",
              blocks |-> Append(blocks, blockToAdd),
              em |-> MarkAllUsed(em, blockToAdd.transactions_)]

\* mutant: the Merkle root of the candidate is kept
addBlock_NoRebuild(blocks, em, newBlock) ==
    LET linked == Relink(blocks, newBlock)
        blockToAdd == [linked EXCEPT !.hash_ = calculateHash(linked)]
    IN  IF AnyTransactionUsed(em, linked.transactions_)
        THEN [ret |-> FALSE, out |-> "Duplicate transaction detected",
              blocks |-> blocks, em |-> em]
        ELSE IF ~BlockIsValid(blockToAdd)
        THEN [ret |-> FALSE, out |-> "Invalid block attempted to be added to the blockchain",
              blocks |-> blocks, em |-> em]
        ELSE [ret |-> TRUE, out |-> "Adding block to chain",
              blocks |-> Append(blocks, blockToAdd),
              em |-> MarkAllUsed(em, blockToAdd.transactions_)]

\* mutant: a block is refused while no participant is registered
addBlock_AsksParticipants(blocks, em, newBlock) ==
    LET linked == Relink(blocks, newBlock)
        rebuilt == buildMerkleTree(linked)
        blockToAdd == [rebuilt EXCEPT !.hash_ = calculateHash(rebuilt)]
    IN  IF AnyTransactionUsed(em, linked.transactions_)
        THEN [ret |-> FALSE, out |-> "Duplicate transaction detected",
              blocks |-> blocks, em |-> em]
        ELSE IF em.authorized_participants_ = {} \/ ~BlockIsValid(blockToAdd)
        THEN [ret |-> FALSE, out |-> "Invalid block attempted to be added to the blockchain",
              blocks |-> blocks, em |-> em]
        ELSE [ret |-> TRUE, out |-> "Adding block to chain",
              blocks |-> Append(blocks, blockToAdd),
              em |-> MarkAllUsed(em, blockToAdd.transactions_)]

\* mutant: an accepted block is written over the tail instead of pushed back
addBlock_OverwriteTail(blocks, em, newBlock) ==
    LET linked == Relink(blocks, newBlock)
        rebuilt == buildMerkleTree(linked)
        blockToAdd == [rebuilt EXCEPT !.hash_ = calculateHash(rebuilt)]
    IN  IF AnyTransactionUsed(em, linked.transactions_)
        THEN [ret |-> FALSE, out |-> "Duplicate transaction detected",
              blocks |-> blocks, em |-> em]
        ELSE IF ~BlockIsValid(blockToAdd)
        THEN [ret |-> FALSE, out |-> "Invalid block attempted to be added to the blockchain",
              blocks |-> blocks, em |-> em]
        ELSE [ret |-> TRUE, out |-> "Adding block to chain",
              blocks |-> [blocks EXCEPT ![Len(blocks)] = blockToAdd],
              em |-> MarkAllUsed(em, blockToAdd.transactions_)]

addBlock(blocks, em, newBlock) ==
    LET linked == Relink(blocks, newBlock)
        rebuilt == buildMerkleTree(linked)
        blockToAdd == [rebuilt EXCEPT !.hash_ = calculateHash(rebuilt)]
    IN  IF AnyTransactionUsed(em, linked.transactions_)
        THEN [ret |-> FALSE, out |-> "Duplicate transaction detected",
              blocks |-> blocks, em |-> em]
        ELSE IF ~BlockIsValid(blockToAdd)
        THEN [ret |-> FALSE, out |-> "Invalid block attempted to be added to the blockchain",
              blocks |-> blocks, em |-> em]
        ELSE [ret |-> TRUE, out |-> "Adding block to chain",
              blocks |-> Append(blocks, blockToAdd),
              em |-> MarkAllUsed(em, blockToAdd.transactions_)]

\* mutant: isValid also asks the Authenticator whether every stored
\* transaction is consumed
ChainIsValid_AsksAuthenticator(blocks) ==
    /\ IF Len(blocks) = 0 THEN FALSE
       ELSE IF Len(blocks) = 1 THEN BlockIsValid(blocks[1])
       ELSE \A i \in 2..Len(blocks) :
               /\ BlockIsValid(blocks[i])
               /\ blocks[i].previous_hash_ = blocks[i - 1].hash_
    /\ \A i \in 1..Len(blocks) :
          \A j \in 1..Len(blocks[i].transactions_) :
              isTransactionUsed(entity_manager_, blocks[i].transactions_[j].uuid_)

ChainIsValid(blocks) ==
    IF Len(blocks) = 0 THEN FALSE
    ELSE IF Len(blocks) = 1 THEN BlockIsValid(blocks[1])
    ELSE \A i \in 2..Len(blocks) :
            /\ BlockIsValid(blocks[i])
            /\ blocks[i].previous_hash_ = blocks[i - 1].hash_

\* getLastBlock: throws std::runtime_error on an empty chain
getLastBlock(blocks) ==
    IF blocks = <<>> THEN [ret |-> "throws", out |-> "Chain is empty"]
    ELSE [ret |-> "block", out |-> blocks[Len(blocks)].hash_]

\* Chain() = default: no block, empty Authenticator
ChainDefault == <<>>

\* blocks_.back() on an empty vector is undefined behaviour: when the program
\* survives the read, hash_ and index_ of the tail are whatever the memory holds
DanglingHashes == {"", "junk"}
DanglingIndexes == {-2, 7}

DanglingTail(h, i) ==
    [index_ |-> i, previous_hash_ |-> "", hash_ |-> h, transactions_ |-> <<>>,
     nonce_ |-> 0, timestamp_ |-> [sec |-> 0, nanosec |-> 0], merkle_root_ |-> ""]

\* addBlock on a chain without blocks, when the read through back() yields
\* hash h and index i: the rest of addBlock runs on these values
addBlockOnEmpty(em, newBlock, h, i) ==
    LET r == addBlock(<<DanglingTail(h, i)>>, em, newBlock)
    IN  [r EXCEPT !.blocks = Tail(@)]

----------------------------------------------------------------------------
(* Direct writes to the public members of a stored block *)

\* blocks_[i].transactions_[j].function_ = payload
TamperPayload(blocks, i, j, payload) ==
    [blocks EXCEPT ![i].transactions_[j].function_ = payload]

----------------------------------------------------------------------------
(* Inputs a caller can build *)

\* number of fields of a transaction that make Transaction::isValid fail
Defects(txn) ==
    (IF txn.uuid_ = "" THEN 1 ELSE 0) + (IF txn.function_ = "" THEN 1 ELSE 0)
    + (IF txn.signature_ = "" THEN 1 ELSE 0)
    + (IF txn.priority_ < PriorityMin \/ txn.priority_ > PriorityMax THEN 1 ELSE 0)

UnsignedTxs ==
    {Transaction(u, f, p, t) :
        u \in TxIds, f \in CandidatePayloads, p \in CandidatePriorities, t \in TxTimes}

\* transactions a caller constructs and possibly signs: the valid ones, and the
\* ones with uuid FreshUuid and exactly one field wrong (no signature, or the
\* priority out of range); AddBlockTx covers the empty uuid and the empty payload
TxInputs ==
    {txn \in UnsignedTxs \cup {signTransaction(x) : x \in UnsignedTxs} :
        \/ Defects(txn) = 0
        \/ Defects(txn) = 1 /\ txn.uuid_ = FreshUuid}

RECURSIVE SeqsUpTo(_, _)
SeqsUpTo(S, n) ==
    IF n = 0 THEN {<<>>}
    ELSE LET shorter == SeqsUpTo(S, n - 1)
         IN  shorter \cup {Append(q, x) : q \in {r \in shorter : Len(r) = n - 1}, x \in S}

\* candidate blocks: Block(txns) for a list of at most MaxTx transactions
Candidates == {Block(txns, t) : txns \in SeqsUpTo(TxInputs, MaxTx), t \in BlockTimes}

BoolStr(b) == IF b THEN "true" ELSE "false"

\* value of last after a call that returns nothing
NoResult == [op |-> "void", ret |-> "void", out |-> ""]

\* the callers that may be inside addBlock at the same time; calls[w].pc is
\* the position of caller w in the body of addBlock, "idle" before the call
Callers == {1, 2}

NoCalls == [w \in Callers |-> [pc |-> "idle"]]

----------------------------------------------------------------------------
(* State machine *)

Init ==
    /\ \E u \in GenesisUuids, f \in GenesisPayloads, p \in GenesisPriorities,
          tt \in TxTimes, bt \in BlockTimes :
            \/ blocks_ = ChainSigned(u, f, p, tt, bt)
            \/ blocks_ = ChainUnsigned(u, f, p, tt, bt)
    /\ entity_manager_ = Authenticator
    /\ last = [op |-> "Chain", ret |-> "void", out |-> ""]
    /\ admitted = [id \in TxIds |-> 0]
    /\ calls = NoCalls

AddBlock ==
    /\ Len(blocks_) < MaxBlocks
    /\ \E newBlock \in Candidates :
         LET r == addBlock(blocks_, entity_manager_, newBlock)
         IN  /\ blocks_' = r.blocks
             /\ entity_manager_' = r.em
             /\ last' = [op |-> "addBlock", ret |-> BoolStr(r.ret), out |-> r.out]
    /\ UNCHANGED admitted
    /\ UNCHANGED calls

\* addBlock(uuid, function, privateKey_, priority): builds and signs one transaction
AddBlockTx ==
    /\ Len(blocks_) < MaxBlocks
    /\ \E u \in Uuids, f \in Payloads, p \in Priorities, tt \in TxTimes, bt \in BlockTimes :
         LET genesisTransaction == signTransaction(Transaction(u, f, p, tt))
             r == addBlock(blocks_, entity_manager_, Block(<<genesisTransaction>>, bt))
         IN  /\ blocks_' = r.blocks
             /\ entity_manager_' = r.em
             /\ last' = [op |-> "addBlock", ret |-> BoolStr(r.ret), out |-> r.out]
    /\ UNCHANGED admitted
    /\ UNCHANGED calls

MetadataInputs == {<<>>} \cup {[k \in MetaKeys |-> v] : v \in MetaValues}

RegisterParticipant ==
    /\ \E p \in Participants, s \in States, m \in MetadataInputs :
         entity_manager_' = registerParticipant(entity_manager_, p, s, m)
    /\ last' = NoResult
    /\ UNCHANGED <<blocks_, admitted>>
    /\ UNCHANGED calls

UpdateParticipantState ==
    /\ \E p \in Issuers, s \in States :
         LET r == updateParticipantState(entity_manager_, p, s)
         IN  /\ entity_manager_' = r.em
             /\ last' = [op |-> "updateParticipantState", ret |-> BoolStr(r.ret), out |-> ""]
    /\ UNCHANGED <<blocks_, admitted>>
    /\ UNCHANGED calls

SetParticipantMetadata ==
    /\ \E p \in Issuers, k \in MetaKeys, v \in MetaValues :
         entity_manager_' = setParticipantMetadata(entity_manager_, p, k, v)
    /\ last' = NoResult
    /\ UNCHANGED <<blocks_, admitted>>
    /\ UNCHANGED calls

GrantCapability ==
    /\ \E p \in Issuers, c \in Capabilities :
         /\ Len(MapGet(entity_manager_.participant_capabilities_, p, <<>>)) < MaxCaps
         /\ entity_manager_' = grantCapability(entity_manager_, p, c)
    /\ last' = NoResult
    /\ UNCHANGED <<blocks_, admitted>>
    /\ UNCHANGED calls

RevokeCapability ==
    /\ \E p \in Issuers, c \in Capabilities :
         entity_manager_' = revokeCapability(entity_manager_, p, c)
    /\ last' = NoResult
    /\ UNCHANGED <<blocks_, admitted>>
    /\ UNCHANGED calls

ValidateAndRecordAction ==
    /\ \E issuer \in Issuers, tx_id \in TxIds, cap \in RequiredCapabilities :
         LET r == validateAndRecordAction(entity_manager_, issuer, tx_id, cap)
         IN  /\ entity_manager_' = r.em
             /\ last' = [op |-> "validateAndRecordAction", ret |-> BoolStr(r.ret), out |-> ""]
             /\ admitted' = IF r.ret THEN [admitted EXCEPT ![tx_id] = @ + 1] ELSE admitted
    /\ UNCHANGED blocks_
    /\ UNCHANGED calls

Next ==
    \/ AddBlock
    \/ AddBlockTx
    \/ RegisterParticipant
    \/ UpdateParticipantState
    \/ SetParticipantMetadata
    \/ GrantCapability
    \/ RevokeCapability
    \/ ValidateAndRecordAction

Spec == Init /\ [][Next]_vars

\* the operations that read or write what addBlock reads: the blocks and the
\* consumed set (registration is needed for validateAndRecordAction to admit)
NextChain ==
    \/ AddBlock
    \/ AddBlockTx
    \/ RegisterParticipant
    \/ ValidateAndRecordAction

SpecChain == Init /\ [][NextChain]_vars

\* the Authenticator facade of the Chain, on chains grown by
\* addBlock(uuid, function, privateKey_, priority)
NextFacade ==
    \/ AddBlockTx
    \/ RegisterParticipant
    \/ UpdateParticipantState
    \/ SetParticipantMetadata
    \/ GrantCapability
    \/ RevokeCapability
    \/ ValidateAndRecordAction

SpecFacade == Init /\ [][NextFacade]_vars

----------------------------------------------------------------------------
(* State machine over all three public constructors of Chain *)

InitAnyCtor ==
    /\ \/ blocks_ = ChainDefault
       \/ \E u \in GenesisUuids, f \in GenesisPayloads, p \in GenesisPriorities,
             tt \in TxTimes, bt \in BlockTimes :
               \/ blocks_ = ChainSigned(u, f, p, tt, bt)
               \/ blocks_ = ChainUnsigned(u, f, p, tt, bt)
    /\ entity_manager_ = Authenticator
    /\ last = [op |-> "Chain", ret |-> "void", out |-> ""]
    /\ admitted = [id \in TxIds |-> 0]
    /\ calls = NoCalls

\* the process has not been ended by a fault
Running == last.ret # "crash"

\* both overloads of addBlock called on a chain without blocks: the read
\* through blocks_.back() either ends the process or yields arbitrary values
AddBlockOnEmpty ==
    /\ blocks_ = <<>>
    /\ \E newBlock \in Candidates \cup
              {Block(<<signTransaction(Transaction(u, f, p, tt))>>, bt) :
                  u \in Uuids, f \in Payloads, p \in Priorities,
                  tt \in TxTimes, bt \in BlockTimes} :
         \/ /\ last' = [op |-> "addBlock", ret |-> "crash", out |-> ""]
            /\ UNCHANGED <<blocks_, entity_manager_>>
         \/ \E h \in DanglingHashes, i \in DanglingIndexes :
              LET r == addBlockOnEmpty(entity_manager_, newBlock, h, i)
              IN  /\ blocks_' = r.blocks
                  /\ entity_manager_' = r.em
                  /\ last' = [op |-> "addBlock", ret |-> BoolStr(r.ret), out |-> r.out]
    /\ UNCHANGED admitted
    /\ UNCHANGED calls

GetLastBlock ==
    /\ last' = [op |-> "getLastBlock"] @@ getLastBlock(blocks_)
    /\ UNCHANGED <<blocks_, entity_manager_, admitted>>
    /\ UNCHANGED calls

NextAnyCtor ==
    \/ Running /\ AddBlockOnEmpty
    \/ Running /\ blocks_ # <<>> /\ AddBlock
    \/ Running /\ blocks_ # <<>> /\ AddBlockTx
    \/ Running /\ GetLastBlock
    \/ Running /\ RegisterParticipant
    \/ Running /\ UpdateParticipantState
    \/ Running /\ SetParticipantMetadata
    \/ Running /\ GrantCapability
    \/ Running /\ RevokeCapability
    \/ Running /\ ValidateAndRecordAction

SpecAnyCtor == InitAnyCtor /\ [][NextAnyCtor]_vars

----------------------------------------------------------------------------
(* State machine of one Block<T> constructed from a list of transactions;
   the block is held as the only element of blocks_ *)

\* the transactions a block is constructed from: the valid one and three with
\* exactly one field that Transaction::isValid refuses (no signature, empty
\* uuid, priority above PriorityMax)
RecordInputs ==
    {txn \in UnsignedTxs \cup
              {signTransaction(Transaction(u, f, p, t)) :
                  u \in Uuids, f \in CandidatePayloads, p \in CandidatePriorities,
                  t \in TxTimes} :
        Defects(txn) <= 1 /\ txn.uuid_ \in {FreshUuid, ""}}

InitBlock ==
    /\ \E txns \in SeqsUpTo(RecordInputs, MaxRecords) \ {<<>>}, bt \in BlockTimes :
          blocks_ = <<Block(txns, bt)>>
    /\ entity_manager_ = Authenticator
    /\ last = [op |-> "Block", ret |-> "void", out |-> ""]
    /\ admitted = [id \in TxIds |-> 0]
    /\ calls = NoCalls

BlockIsValidCall ==
    /\ last' = [op |-> "Block::isValid", ret |-> BoolStr(BlockIsValid(blocks_[1])), out |-> ""]
    /\ UNCHANGED <<blocks_, entity_manager_, admitted>>
    /\ UNCHANGED calls

VerifyTransactionCall ==
    /\ \E transaction_index \in 0..Len(blocks_[1].transactions_) :
          last' = [op |-> "verifyTransaction",
                   ret |-> BoolStr(verifyTransaction(blocks_[1], transaction_index)),
                   out |-> ToString(transaction_index)]
    /\ UNCHANGED <<blocks_, entity_manager_, admitted>>
    /\ UNCHANGED calls

NextBlock ==
    \/ BlockIsValidCall
    \/ VerifyTransactionCall

SpecBlock == InitBlock /\ [][NextBlock]_vars

----------------------------------------------------------------------------
(* State machine of a Chain with its queries isValid and blocks_[0].isValid *)

\* mutant: the query marks the transactions it has looked at as used
IsValidCall_Marks ==
    /\ last' = [op |-> "Chain::isValid", ret |-> BoolStr(ChainIsValid(blocks_)), out |-> ""]
    /\ entity_manager_' = MarkAllUsed(entity_manager_, blocks_[1].transactions_)
    /\ UNCHANGED <<blocks_, admitted>>
    /\ UNCHANGED calls

IsValidCall ==
    /\ last' = [op |-> "Chain::isValid", ret |-> BoolStr(ChainIsValid(blocks_)), out |-> ""]
    /\ UNCHANGED <<blocks_, entity_manager_, admitted>>
    /\ UNCHANGED calls

NextQuery ==
    \/ AddBlock
    \/ AddBlockTx
    \/ RegisterParticipant
    \/ ValidateAndRecordAction
    \/ IsValidCall
    \/ BlockIsValidCall

SpecQuery == Init /\ [][NextQuery]_vars

----------------------------------------------------------------------------
(* State machine of one Transaction<T>, the genesis transaction of a freshly
   constructed Chain, and its toString *)

StringSecs == {1, 11}
StringNanosecs == {5, 15}
StringPriorities == {1, 10}
StringUuids == {"a", "0a", "ab"}
StringPayloads == {"c", "bc"}

\* the transactions a caller can construct over the alphabets above
StringRecords ==
    {Transaction(u, f, p, [sec |-> sc, nanosec |-> ns]) :
        u \in StringUuids, f \in StringPayloads, p \in StringPriorities,
        sc \in StringSecs, ns \in StringNanosecs}

InitString ==
    /\ \E u \in StringUuids, f \in StringPayloads, p \in StringPriorities,
          sc \in StringSecs, ns \in StringNanosecs, bt \in BlockTimes :
            \/ blocks_ = ChainSigned(u, f, p, [sec |-> sc, nanosec |-> ns], bt)
            \/ blocks_ = ChainUnsigned(u, f, p, [sec |-> sc, nanosec |-> ns], bt)
    /\ entity_manager_ = Authenticator
    /\ last = [op |-> "Chain", ret |-> "void", out |-> ""]
    /\ admitted = [id \in TxIds |-> 0]
    /\ calls = NoCalls

\* blocks_[0].transactions_[0].toString()
ToStringCall ==
    /\ last' = [op |-> "toString", ret |-> "void", out |-> toString(blocks_[1].transactions_[1])]
    /\ UNCHANGED <<blocks_, entity_manager_, admitted>>
    /\ UNCHANGED calls

\* blocks_[0].transactions_[0].signTransaction(privateKey_)
SignTransactionCall ==
    /\ blocks_' = [blocks_ EXCEPT ![1].transactions_[1] = signTransaction(@)]
    /\ last' = NoResult
    /\ UNCHANGED <<entity_manager_, admitted>>
    /\ UNCHANGED calls

NextString ==
    \/ ToStringCall
    \/ SignTransactionCall

SpecString == InitString /\ [][NextString]_vars

----------------------------------------------------------------------------
(* State machine of the Merkle proofs of one Block<T>; the block is held as
   the only element of blocks_ *)

\* two signed transactions with different strings
ProofRecords ==
    {txn \in RecordInputs : txn.signature_ # "" /\ txn.uuid_ = FreshUuid}

\* leaf values a caller passes to verifyProof
ProofLeaves == {toString(txn) : txn \in ProofRecords} \cup {"x"}

InitProof ==
    /\ \E txns \in SeqsUpTo(ProofRecords, MaxRecords) \ {<<>>}, bt \in BlockTimes :
          blocks_ = <<Block(txns, bt)>>
    /\ entity_manager_ = Authenticator
    /\ last = [op |-> "Block", ret |-> "void", out |-> ""]
    /\ admitted = [id \in TxIds |-> 0]
    /\ calls = NoCalls

\* MerkleTree(tx_strings).verifyProof(leaf_value, index, getProof(index)) on
\* the tree of the block's transactions
VerifyProofCall ==
    /\ \E index \in 0..(Len(blocks_[1].transactions_) - 1), leaf_value \in ProofLeaves :
          LET tx_strings == txStrings(blocks_[1].transactions_)
          IN  last' = [op |-> "verifyProof",
                       ret |-> BoolStr(verifyProof(leaf_value, index,
                                                   getProof(tx_strings, index),
                                                   getRoot(tx_strings))),
                       out |-> leaf_value \o "#" \o ToString(index)]
    /\ UNCHANGED <<blocks_, entity_manager_, admitted>>
    /\ UNCHANGED calls

\* blocks_[0].transactions_[j].function_ = "x" on a block whose stored root
\* still is the root of its transactions; buildMerkleTree is not called
TamperStoredPayload ==
    /\ blocks_[1].merkle_root_ = getRoot(txStrings(blocks_[1].transactions_))
    /\ \E j \in 1..Len(blocks_[1].transactions_) :
          blocks_' = TamperPayload(blocks_, 1, j, "x")
    /\ last' = NoResult
    /\ UNCHANGED <<entity_manager_, admitted>>
    /\ UNCHANGED calls

NextProof ==
    \/ VerifyProofCall
    \/ VerifyTransactionCall
    \/ TamperStoredPayload

SpecProof == InitProof /\ [][NextProof]_vars

----------------------------------------------------------------------------
(* State machine of the genesis transaction of a freshly constructed Chain
   and its isValid, with every field at and around the limits isValid tests *)

BoundaryPriorities == {PriorityMin - 1, PriorityMin, DefaultPriority, PriorityMax, PriorityMax + 1}

\* signature bytes a caller writes that no key produced
ForgedSignatures == {"junk"}

InitRecord ==
    /\ \E u \in Uuids, f \in Payloads, p \in BoundaryPriorities,
          tt \in TxTimes, bt \in BlockTimes :
            \/ blocks_ = ChainSigned(u, f, p, tt, bt)
            \/ blocks_ = ChainUnsigned(u, f, p, tt, bt)
    /\ entity_manager_ = Authenticator
    /\ last = [op |-> "Chain", ret |-> "void", out |-> ""]
    /\ admitted = [id \in TxIds |-> 0]
    /\ calls = NoCalls

\* blocks_[0].transactions_[0].isValid()
TxIsValidCall ==
    /\ last' = [op |-> "Transaction::isValid",
                ret |-> BoolStr(TxIsValid(blocks_[1].transactions_[1])), out |-> ""]
    /\ UNCHANGED <<blocks_, entity_manager_, admitted>>
    /\ UNCHANGED calls

\* blocks_[0].transactions_[0].signature_ = bytes
ForgeSignature ==
    /\ \E bytes \in ForgedSignatures :
          blocks_' = [blocks_ EXCEPT ![1].transactions_[1].signature_ = bytes]
    /\ last' = NoResult
    /\ UNCHANGED <<entity_manager_, admitted>>
    /\ UNCHANGED calls

NextRecord ==
    \/ TxIsValidCall
    \/ SignTransactionCall
    \/ ForgeSignature

SpecRecord == InitRecord /\ [][NextRecord]_vars

----------------------------------------------------------------------------
(* State machine of the Authenticator of a Chain with two participants, two
   states, two capabilities and two metadata values *)

AuthParticipants == {"p1", "p2"}
AuthStates == {"active", "idle"}
AuthCapabilities == {"READ", "WRITE"}
AuthMetaValues == {"v", "w"}
AuthMetadataInputs == {<<>>} \cup {[k \in MetaKeys |-> v] : v \in AuthMetaValues}
AuthTxIds == {"t1"}

InitAuth ==
    /\ \E u \in GenesisUuids, f \in GenesisPayloads, p \in GenesisPriorities,
          tt \in TxTimes, bt \in BlockTimes :
            blocks_ = ChainSigned(u, f, p, tt, bt)
    /\ entity_manager_ = Authenticator
    /\ last = [op |-> "Chain", ret |-> "void", out |-> ""]
    /\ admitted = [id \in TxIds |-> 0]
    /\ calls = NoCalls

AuthRegisterParticipant ==
    /\ \E p \in AuthParticipants, s \in AuthStates, m \in AuthMetadataInputs :
         entity_manager_' = registerParticipant(entity_manager_, p, s, m)
    /\ last' = NoResult
    /\ UNCHANGED <<blocks_, admitted>>
    /\ UNCHANGED calls

AuthUpdateParticipantState ==
    /\ \E p \in AuthParticipants, s \in AuthStates :
         LET r == updateParticipantState(entity_manager_, p, s)
         IN  /\ entity_manager_' = r.em
             /\ last' = [op |-> "updateParticipantState", ret |-> BoolStr(r.ret), out |-> ""]
    /\ UNCHANGED <<blocks_, admitted>>
    /\ UNCHANGED calls

AuthSetParticipantMetadata ==
    /\ \E p \in AuthParticipants, k \in MetaKeys, v \in AuthMetaValues :
         entity_manager_' = setParticipantMetadata(entity_manager_, p, k, v)
    /\ last' = NoResult
    /\ UNCHANGED <<blocks_, admitted>>
    /\ UNCHANGED calls

AuthGrantCapability ==
    /\ \E p \in AuthParticipants, c \in AuthCapabilities :
         /\ Len(MapGet(entity_manager_.participant_capabilities_, p, <<>>)) < MaxGrants
         /\ entity_manager_' = grantCapability(entity_manager_, p, c)
         /\ last' = [op |-> "grantCapability", ret |-> "void", out |-> p \o ":" \o c]
    /\ UNCHANGED <<blocks_, admitted>>
    /\ UNCHANGED calls

AuthRevokeCapability ==
    /\ \E p \in AuthParticipants, c \in AuthCapabilities :
         /\ entity_manager_' = revokeCapability(entity_manager_, p, c)
         /\ last' = [op |-> "revokeCapability", ret |-> "void", out |-> p \o ":" \o c]
    /\ UNCHANGED <<blocks_, admitted>>
    /\ UNCHANGED calls

AuthValidateAndRecordAction ==
    /\ \E issuer \in AuthParticipants, tx_id \in AuthTxIds :
         LET r == validateAndRecordAction(entity_manager_, issuer, tx_id, "")
         IN  /\ entity_manager_' = r.em
             /\ last' = [op |-> "validateAndRecordAction", ret |-> BoolStr(r.ret), out |-> ""]
             /\ admitted' = IF r.ret THEN [admitted EXCEPT ![tx_id] = @ + 1] ELSE admitted
    /\ UNCHANGED blocks_
    /\ UNCHANGED calls

NextAuth ==
    \/ AuthRegisterParticipant
    \/ AuthUpdateParticipantState
    \/ AuthSetParticipantMetadata
    \/ AuthGrantCapability
    \/ AuthRevokeCapability
    \/ AuthValidateAndRecordAction

SpecAuth == InitAuth /\ [][NextAuth]_vars

----------------------------------------------------------------------------
(* Properties *)

DuplicateMsg == "Duplicate transaction detected"
InvalidMsg == "Invalid block attempted to be added to the blockchain"

UsedIds == entity_manager_.used_transaction_ids_

\* C1: a call of addBlock that returns false leaves the block sequence and the
\* whole Authenticator state as they were before the call.
C1_AtomicRejection ==
    [][(last'.op = "addBlock" /\ last'.ret = "false")
          => (blocks_' = blocks_ /\ entity_manager_' = entity_manager_)]_vars

\* an invalid block was rejected on a chain that already holds accepted blocks
C1_Witness ==
    /\ last.op = "addBlock" /\ last.ret = "false" /\ last.out = InvalidMsg
    /\ Len(blocks_) > 1 /\ UsedIds # {}

\* C2: a candidate with at least one transaction whose uuid is already consumed
\* is rejected; chain length and consumed set stay the same, so the fresh uuids
\* of the same candidate are not consumed.
C2_DuplicateRejected ==
    \A newBlock \in Candidates :
        (\E i \in 1..Len(newBlock.transactions_) : newBlock.transactions_[i].uuid_ \in UsedIds)
        => LET r == addBlock(blocks_, entity_manager_, newBlock)
           IN  /\ r.ret = FALSE
               /\ Len(r.blocks) = Len(blocks_)
               /\ r.em.used_transaction_ids_ = UsedIds

\* a duplicate was rejected while another uuid was still fresh
C2_Witness ==
    /\ last.op = "addBlock" /\ last.ret = "false" /\ last.out = DuplicateMsg
    /\ UsedIds # {} /\ UsedIds # TxIds

\* C3: no two transactions stored in the chain have the same uuid, in different
\* blocks (genesis included) or in the same block.
C3_UniqueUuids ==
    \A i1 \in 1..Len(blocks_), i2 \in 1..Len(blocks_) :
        \A j1 \in 1..Len(blocks_[i1].transactions_), j2 \in 1..Len(blocks_[i2].transactions_) :
            (blocks_[i1].transactions_[j1].uuid_ = blocks_[i2].transactions_[j2].uuid_)
            => (i1 = i2 /\ j1 = j2)

\* the issuer holds the capability: it occurs in the issuer's capability vector
Holds(issuer, cap) ==
    /\ issuer \in DOMAIN entity_manager_.participant_capabilities_
    /\ \E k \in 1..Len(entity_manager_.participant_capabilities_[issuer]) :
          entity_manager_.participant_capabilities_[issuer][k] = cap

\* C4: validateAndRecordAction succeeds iff the tx id is not consumed, the issuer
\* is registered and the capability is empty or held; success only adds the id to
\* the consumed set, failure changes nothing.
C4_ValidateAndAdmit ==
    \A issuer \in Issuers, tx_id \in TxIds, cap \in RequiredCapabilities :
        LET r == validateAndRecordAction(entity_manager_, issuer, tx_id, cap)
            admit == /\ tx_id \notin UsedIds
                     /\ issuer \in entity_manager_.authorized_participants_
                     /\ (cap = "" \/ Holds(issuer, cap))
        IN  /\ r.ret = admit
            /\ r.ret => r.em = [entity_manager_ EXCEPT !.used_transaction_ids_ = @ \cup {tx_id}]
            /\ ~r.ret => r.em = entity_manager_

\* an action was admitted for a registered issuer that does not hold WRITE
C4_Witness ==
    /\ last.op = "validateAndRecordAction" /\ last.ret = "true"
    /\ "p1" \in entity_manager_.authorized_participants_
    /\ ~Holds("p1", "WRITE")
    /\ UsedIds # {}

\* C5: validateAndRecordAction returns true at most once for a tx id.
C5_NoReplay == \A id \in TxIds : admitted[id] <= 1

\* a second attempt on an admitted id was refused
C5_Witness ==
    /\ last.op = "validateAndRecordAction" /\ last.ret = "false"
    /\ \A id \in TxIds : admitted[id] = 1

\* C6: blocks_[0] has index 0 and previous hash GENESIS, and every later block
\* carries the hash of its predecessor and the predecessor's index plus one.
C6_Linkage ==
    /\ blocks_[1].index_ = 0
    /\ blocks_[1].previous_hash_ = "GENESIS"
    /\ \A i \in 2..Len(blocks_) :
          /\ blocks_[i].previous_hash_ = blocks_[i - 1].hash_
          /\ blocks_[i].index_ = blocks_[i - 1].index_ + 1
          /\ blocks_[i].index_ = i - 1

\* two blocks were appended and a further candidate was then rejected
C6_Witness ==
    /\ Len(blocks_) >= 3
    /\ last.op = "addBlock"

\* C7: isValid of the chain is true exactly when every block, block 0 included,
\* is valid and every block after block 0 carries its predecessor's hash.
C7_IsValidCoversEveryBlock ==
    ChainIsValid(blocks_) =
        (/\ BlockIsValid(blocks_[1])
         /\ \A i \in 2..Len(blocks_) :
               /\ BlockIsValid(blocks_[i])
               /\ blocks_[i].previous_hash_ = blocks_[i - 1].hash_)

\* C8: on a chain that isValid accepts, changing the payload of one stored
\* transaction, in any block, makes isValid return false.
C8_PayloadTamperDetected ==
    ChainIsValid(blocks_) =>
        \A i \in 1..Len(blocks_) :
            \A j \in 1..Len(blocks_[i].transactions_) :
                \A payload \in TamperPayloads \ {blocks_[i].transactions_[j].function_} :
                    ~ChainIsValid(TamperPayload(blocks_, i, j, payload))

\* a transaction that Transaction::isValid accepts, stated on its fields
WellFormed(txn) ==
    /\ txn.uuid_ # "" /\ txn.function_ # "" /\ txn.signature_ # ""
    /\ txn.priority_ \in PriorityMin..PriorityMax

\* C9: on a valid chain a candidate of well-formed transactions with fresh uuids
\* is accepted: one more block, linked to the old tail, all its uuids consumed,
\* and the chain still valid.
C9_SuccessfulAppend ==
    ChainIsValid(blocks_) =>
    \A newBlock \in Candidates :
        (\A i \in 1..Len(newBlock.transactions_) :
               /\ WellFormed(newBlock.transactions_[i])
               /\ newBlock.transactions_[i].uuid_ \notin UsedIds)
        => LET r == addBlock(blocks_, entity_manager_, newBlock)
               n == Len(blocks_)
           IN  /\ r.ret = TRUE
               /\ Len(r.blocks) = n + 1
               /\ SubSeq(r.blocks, 1, n) = blocks_
               /\ r.blocks[n + 1].index_ = blocks_[n].index_ + 1
               /\ r.blocks[n + 1].previous_hash_ = blocks_[n].hash_
               /\ \A i \in 1..Len(newBlock.transactions_) :
                     newBlock.transactions_[i].uuid_ \in r.em.used_transaction_ids_
               /\ ChainIsValid(r.blocks)

\* a block with two transactions was accepted on a valid chain
C9_Witness ==
    /\ last.op = "addBlock" /\ last.ret = "true"
    /\ Len(blocks_) >= 2
    /\ Len(blocks_[Len(blocks_)].transactions_) = 2
    /\ BlockIsValid(blocks_[1])
    /\ ChainIsValid(blocks_)

\* C10: a tx id that isTransactionUsed reports as used stays used after every
\* operation of the Chain and of the Authenticator.
C10_ConsumedAppendOnly ==
    [][\A id \in TxIds :
          isTransactionUsed(entity_manager_, id) => isTransactionUsed(entity_manager_', id)]_vars

\* every id is consumed and an Authenticator mutation came afterwards
C10_Witness ==
    /\ UsedIds = TxIds
    /\ last = NoResult
    /\ Len(blocks_) >= 2

\* C11: for an id that is not registered, updateParticipantState returns false
\* and updateParticipantState, grantCapability, revokeCapability and
\* setParticipantMetadata return the Authenticator as it was; the id reads as
\* state "unknown", no capability, no metadata, and a later registration without
\* metadata starts from exactly that: the given state, no capability, no metadata.
C11_UnregisteredNoEffect ==
    \A p \in Issuers :
        ~isParticipantAuthorized(entity_manager_, p) =>
            /\ \A s \in States :
                  /\ updateParticipantState(entity_manager_, p, s).ret = FALSE
                  /\ updateParticipantState(entity_manager_, p, s).em = entity_manager_
            /\ \A c \in Capabilities :
                  /\ grantCapability(entity_manager_, p, c) = entity_manager_
                  /\ revokeCapability(entity_manager_, p, c) = entity_manager_
                  /\ ~hasCapability(entity_manager_, p, c)
            /\ \A k \in MetaKeys :
                  /\ \A v \in MetaValues :
                        setParticipantMetadata(entity_manager_, p, k, v) = entity_manager_
                  /\ getParticipantMetadata(entity_manager_, p, k) = ""
            /\ getParticipantState(entity_manager_, p) = "unknown"
            /\ \A s \in States :
                  LET r == registerParticipant(entity_manager_, p, s, <<>>)
                  IN  /\ getParticipantState(r, p) = s
                      /\ \A c \in Capabilities : ~hasCapability(r, p, c)
                      /\ \A k \in MetaKeys : getParticipantMetadata(r, p, k) = ""

\* updateParticipantState was refused for the unregistered p2 while p1 is
\* registered and holds a capability and metadata
C11_Witness ==
    /\ last.op = "updateParticipantState" /\ last.ret = "false"
    /\ isParticipantAuthorized(entity_manager_, "p1")
    /\ ~isParticipantAuthorized(entity_manager_, "p2")
    /\ hasCapability(entity_manager_, "p1", "WRITE")
    /\ getParticipantMetadata(entity_manager_, "p1", "k") = "v"

\* the first sequence is a prefix of the second
IsPrefix(a, b) == Len(a) <= Len(b) /\ SubSeq(b, 1, Len(a)) = a

\* C12: every operation of the Chain and of the Authenticator leaves the stored
\* blocks as a prefix of the blocks afterwards; an accepted addBlock adds exactly
\* one block and every other operation adds none.
C12_AppendOnly ==
    [][/\ IsPrefix(blocks_, blocks_')
       /\ (last'.op = "addBlock" /\ last'.ret = "true") => Len(blocks_') = Len(blocks_) + 1
       /\ ~(last'.op = "addBlock" /\ last'.ret = "true") => blocks_' = blocks_]_vars

\* the chain grew to MaxBlocks blocks by accepted appends
C12_Witness ==
    /\ last.op = "addBlock" /\ last.ret = "true"
    /\ Len(blocks_) = MaxBlocks
    /\ \A i \in 2..Len(blocks_) : blocks_[i].previous_hash_ = blocks_[i - 1].hash_

\* C13: a Chain obtained through any public constructor has at least one block
\* and no operation brings the number of blocks to zero.
C13_ActiveOnly == Len(blocks_) >= 1

\* C14: on a chain without blocks getLastBlock reports an error and addBlock
\* returns false, both leaving the blocks and the Authenticator unchanged.
C14_EmptyChainFailsExplicitly ==
    [][blocks_ = <<>> =>
         /\ last'.op = "getLastBlock" =>
               (last'.ret = "throws" /\ blocks_' = blocks_ /\ entity_manager_' = entity_manager_)
         /\ last'.op = "addBlock" =>
               (last'.ret = "false" /\ blocks_' = blocks_ /\ entity_manager_' = entity_manager_)]_vars

\* C15 as stated: the block constructed from a non-empty list of transactions
\* has the Merkle root of their strings, index 0, previous hash GENESIS, nonce 0,
\* and isValid returns true right after construction.
C15_ConstructedBlockValid ==
    last.op = "Block" =>
        LET b == blocks_[1]
        IN  /\ b.merkle_root_ = getRoot([i \in 1..Len(b.transactions_) |-> toString(b.transactions_[i])])
            /\ b.index_ = 0 /\ b.previous_hash_ = "GENESIS" /\ b.nonce_ = 0
            /\ BlockIsValid(b)

\* C15 amended: as above, but isValid returns true right after construction
\* exactly when every transaction of the list is valid.
C15_ConstructedBlock ==
    last.op = "Block" =>
        LET b == blocks_[1]
        IN  /\ b.merkle_root_ = getRoot([i \in 1..Len(b.transactions_) |-> toString(b.transactions_[i])])
            /\ b.index_ = 0 /\ b.previous_hash_ = "GENESIS" /\ b.nonce_ = 0
            /\ BlockIsValid(b) = (\A i \in 1..Len(b.transactions_) : WellFormed(b.transactions_[i]))

\* a block has just been constructed from three transactions of which only the
\* last is not valid, and its isValid is false
C15_Witness ==
    /\ last.op = "Block" /\ ~BlockIsValid(blocks_[1])
    /\ Len(blocks_[1].transactions_) = 3
    /\ WellFormed(blocks_[1].transactions_[1])
    /\ WellFormed(blocks_[1].transactions_[2])
    /\ ~WellFormed(blocks_[1].transactions_[3])

\* C16: right after a Chain is constructed by either genesis constructor with a
\* genesis transaction of non-empty uuid, non-empty payload and priority in
\* [0,255], the chain has exactly one block and isValid returns true.
C16_ValidAfterConstruction ==
    (/\ last.op = "Chain"
     /\ Len(blocks_) >= 1
     /\ \A j \in 1..Len(blocks_[1].transactions_) :
           /\ blocks_[1].transactions_[j].uuid_ # ""
           /\ blocks_[1].transactions_[j].function_ # ""
           /\ blocks_[1].transactions_[j].priority_ \in PriorityMin..PriorityMax)
    => (Len(blocks_) = 1 /\ ChainIsValid(blocks_))

AuthenticatorOps == {"void", "updateParticipantState", "validateAndRecordAction"}

\* C18: every Authenticator operation called through the Chain, accepted or
\* refused, leaves the blocks unchanged and the result of Chain::isValid as it was.
C18_IsValidIgnoresAuthenticator ==
    [][last'.op \in AuthenticatorOps =>
         /\ blocks_' = blocks_
         /\ ChainIsValid(blocks_)' = ChainIsValid(blocks_)]_vars

\* on a valid chain of two blocks p1 was registered and granted WRITE, and the
\* last operation was one of the Authenticator that returns nothing
C18_Witness ==
    /\ last = NoResult
    /\ Len(blocks_) >= 2 /\ ChainIsValid(blocks_)
    /\ hasCapability(entity_manager_, "p1", "WRITE")
    /\ UsedIds = TxIds

\* the two transactions differ in seconds, nanoseconds, priority, uuid or payload
Differ(t1, t2) ==
    \/ t1.timestamp_.sec # t2.timestamp_.sec
    \/ t1.timestamp_.nanosec # t2.timestamp_.nanosec
    \/ t1.priority_ # t2.priority_
    \/ t1.uuid_ # t2.uuid_
    \/ t1.function_ # t2.function_

\* C19: two transactions that differ in seconds, nanoseconds, priority, uuid or
\* payload string never have the same toString.
C19_ToStringUnambiguous ==
    \A other \in StringRecords :
        Differ(blocks_[1].transactions_[1], other)
        => toString(blocks_[1].transactions_[1]) # toString(other)

\* C20: for the strings of a block's transactions as leaves (one leaf, an even
\* or an odd number of leaves) and every index i in range, the proof getProof
\* gives for i verifies leaf i against getRoot, and verifyTransaction(i) is true.
C20_ProofCompleteness ==
    LET b == blocks_[1]
        leaves == txStrings(b.transactions_)
    IN  \A i \in 0..(Len(leaves) - 1) :
            /\ verifyProof(leaves[i + 1], i, getProof(leaves, i), getRoot(leaves))
            /\ verifyTransaction(b, i)

\* verifyTransaction returned true for the last of five transactions, a node
\* that is paired with itself on the way up, in a block whose first two
\* transactions have different strings
C20_Witness ==
    /\ last.op = "verifyTransaction" /\ last.ret = "true" /\ last.out = "4"
    /\ Len(blocks_[1].transactions_) = 5
    /\ toString(blocks_[1].transactions_[1]) # toString(blocks_[1].transactions_[2])

\* C21: for the tree over the strings of a block's transactions and every index
\* i, verifyProof with a leaf value different from leaf i, the proof of i and the
\* root of the tree returns false.
C21_ProofSoundness ==
    LET leaves == txStrings(blocks_[1].transactions_)
    IN  \A i \in 0..(Len(leaves) - 1) :
            \A leaf_value \in ProofLeaves \ {leaves[i + 1]} :
                ~verifyProof(leaf_value, i, getProof(leaves, i), getRoot(leaves))

\* verifyProof refused the value x for the last of five leaves, a node paired
\* with itself, in a tree whose leaves all have the same value
C21_Witness ==
    /\ last.op = "verifyProof" /\ last.ret = "false" /\ last.out = "x#4"
    /\ Len(blocks_[1].transactions_) = 5
    /\ \A j \in 1..5 : toString(blocks_[1].transactions_[j]) = toString(blocks_[1].transactions_[1])
    /\ toString(blocks_[1].transactions_[1]) # "x"

\* C22: verifyTransaction(i) is true exactly when i is in range and the proof
\* freshly built for the current transaction i verifies against the stored
\* merkle_root_; so it is false for a transaction whose payload was changed
\* without rebuilding the root, and false for i at or beyond the number of
\* transactions.
C22_VerifyAgainstStoredRoot ==
    LET b == blocks_[1]
        leaves == txStrings(b.transactions_)
    IN  \A i \in 0..Len(leaves) :
            verifyTransaction(b, i) =
                (IF i >= Len(leaves) THEN FALSE
                 ELSE verifyProof(leaves[i + 1], i, getProof(leaves, i), b.merkle_root_))

\* C23: Transaction::isValid returns false exactly when the uuid is empty, or
\* the payload string is empty, or the signature is empty, or the priority is
\* below 0 or above 255, and true otherwise, whatever the signature bytes are.
C23_TxIsValidExactly ==
    LET txn == blocks_[1].transactions_[1]
        refused == \/ txn.uuid_ = ""
                   \/ txn.function_ = ""
                   \/ txn.signature_ = ""
                   \/ txn.priority_ < 0
                   \/ txn.priority_ > 255
    IN  /\ TxIsValid(txn) = ~refused
        /\ last.op = "Transaction::isValid" => last.ret = BoolStr(~refused)

\* isValid returned true for a transaction of priority 255 whose signature
\* bytes were written by the caller
C23_Witness ==
    /\ last.op = "Transaction::isValid" /\ last.ret = "true"
    /\ blocks_[1].transactions_[1].signature_ \in ForgedSignatures
    /\ blocks_[1].transactions_[1].priority_ = 255

\* C24: registerParticipant(id, state, metadata) called twice in a row leaves
\* the Authenticator as one call does, and on a registered id it replaces the
\* state and the metadata by the ones supplied, an empty metadata map included,
\* leaving the other participants and the consumed set as they were.
C24_RegisterOverwrites ==
    \A p \in AuthParticipants, s \in AuthStates, m \in AuthMetadataInputs :
        LET r == registerParticipant(entity_manager_, p, s, m)
        IN  /\ registerParticipant(r, p, s, m) = r
            /\ getParticipantState(r, p) = s
            /\ \A k \in MetaKeys : getParticipantMetadata(r, p, k) = MapGet(m, k, "")
            /\ r.used_transaction_ids_ = entity_manager_.used_transaction_ids_
            /\ \A q \in AuthParticipants \ {p} :
                  /\ isParticipantAuthorized(r, q) = isParticipantAuthorized(entity_manager_, q)
                  /\ getParticipantState(r, q) = getParticipantState(entity_manager_, q)
                  /\ \A k \in MetaKeys :
                        getParticipantMetadata(r, q, k) = getParticipantMetadata(entity_manager_, q, k)
                  /\ \A c \in AuthCapabilities :
                        hasCapability(r, q, c) = hasCapability(entity_manager_, q, c)

\* C25: after revokeCapability(p, c) hasCapability(p, c) is false however often
\* c was granted; the other capabilities of p, the capability vectors of the
\* other participants, the participant set, the states, the metadata and the
\* consumed set are as before; if p does not hold c every query answers as before.
C25_RevokeOnlyNamed ==
    \A p \in AuthParticipants, c \in AuthCapabilities :
        LET r == revokeCapability(entity_manager_, p, c)
        IN  /\ ~hasCapability(r, p, c)
            /\ \A d \in AuthCapabilities \ {c} :
                  hasCapability(r, p, d) = hasCapability(entity_manager_, p, d)
            /\ \A q \in AuthParticipants \ {p} :
                  MapGet(r.participant_capabilities_, q, <<>>)
                      = MapGet(entity_manager_.participant_capabilities_, q, <<>>)
            /\ r.authorized_participants_ = entity_manager_.authorized_participants_
            /\ r.participant_states_ = entity_manager_.participant_states_
            /\ r.participant_metadata_ = entity_manager_.participant_metadata_
            /\ r.used_transaction_ids_ = entity_manager_.used_transaction_ids_
            /\ ~hasCapability(entity_manager_, p, c) =>
                  \A q \in AuthParticipants, d \in AuthCapabilities :
                      hasCapability(r, q, d) = hasCapability(entity_manager_, q, d)

\* WRITE was revoked from p1, which keeps READ, while p2 holds WRITE twice
C25_Witness ==
    /\ last.op = "revokeCapability" /\ last.out = "p1:WRITE"
    /\ MapGet(entity_manager_.participant_capabilities_, "p1", <<>>) = <<"READ">>
    /\ MapGet(entity_manager_.participant_capabilities_, "p2", <<>>) = <<"WRITE", "WRITE">>
    /\ entity_manager_.used_transaction_ids_ # {}

-----------------------------------------------------------------------------
(* Authenticator::serialize and Authenticator::deserialize, character by
   character.  A std::string is a sequence of one-character strings and
   positions count from 0 as in the source. *)

\* the characters of the strings the serializer writes
Chars(s) ==
    CASE s = "p1" -> <<"p", "1">>
      [] s = "p2" -> <<"p", "2">>
      [] s = "t1" -> <<"t", "1">>
      [] s = "active" -> <<"a", "c", "t", "i", "v", "e">>
      [] s = "idle" -> <<"i", "d", "l", "e">>
      [] s = "READ" -> <<"R", "E", "A", "D">>
      [] s = "WRITE" -> <<"W", "R", "I", "T", "E">>
      [] s = "k" -> <<"k">>
      [] s = "v" -> <<"v">>
      [] s = "w" -> <<"w">>
      [] s = "{" -> <<"{">>
      [] s = "}" -> <<"}">>
      [] s = "," -> <<",">>
      [] s = "\"" -> <<"\"">>
      [] s = "]" -> <<"]">>
      [] s = "]," -> <<"]", ",">>
      [] s = "}," -> <<"}", ",">>
      [] s = "\": \"" -> <<"\"", ":", " ", "\"">>
      [] s = "\": [" -> <<"\"", ":", " ", "[">>
      [] s = "\": {" -> <<"\"", ":", " ", "{">>
      [] s = "\"authorized_participants\": [" -> <<"\"", "a", "u", "t", "h", "o", "r", "i", "z", "e", "d", "_", "p", "a", "r", "t", "i", "c", "i", "p", "a", "n", "t", "s", "\"", ":", " ", "[">>
      [] s = "\"used_transaction_ids\": [" -> <<"\"", "u", "s", "e", "d", "_", "t", "r", "a", "n", "s", "a", "c", "t", "i", "o", "n", "_", "i", "d", "s", "\"", ":", " ", "[">>
      [] s = "\"participant_states\": {" -> <<"\"", "p", "a", "r", "t", "i", "c", "i", "p", "a", "n", "t", "_", "s", "t", "a", "t", "e", "s", "\"", ":", " ", "{">>
      [] s = "\"participant_capabilities\": {" -> <<"\"", "p", "a", "r", "t", "i", "c", "i", "p", "a", "n", "t", "_", "c", "a", "p", "a", "b", "i", "l", "i", "t", "i", "e", "s", "\"", ":", " ", "{">>
      [] s = "\"participant_metadata\": {" -> <<"\"", "p", "a", "r", "t", "i", "c", "i", "p", "a", "n", "t", "_", "m", "e", "t", "a", "d", "a", "t", "a", "\"", ":", " ", "{">>

\* std::string built from characters
RECURSIVE Join(_)
Join(cs) ==
    IF cs = <<>> THEN ""
    ELSE IF Len(cs) = 1 THEN cs[1]
    ELSE LET half == Len(cs) \div 2
         IN  Join(SubSeq(cs, 1, half)) \o Join(SubSeq(cs, half + 1, Len(cs)))

\* std::string::npos
npos == -1

\* std::string::find(pat, pos)
find(s, pat, pos) ==
    LET hits == {i \in pos..(Len(s) - Len(pat)) : SubSeq(s, i + 1, i + Len(pat)) = pat}
    IN  IF hits = {} THEN npos ELSE CHOOSE i \in hits : \A j \in hits : i <= j

\* std::string::substr(first, stop - first); a count that reaches past the end,
\* as npos - first does, is cut at the end of the string
substr(s, first, stop) ==
    SubSeq(s, first + 1, IF stop = npos \/ stop > Len(s) THEN Len(s) ELSE stop)

\* the enumerations of a set: the iteration orders an unordered container may have
RECURSIVE Orders(_)
Orders(S) ==
    IF S = {} THEN {<<>>}
    ELSE UNION {{<<x>> \o o : o \in Orders(S \ {x})} : x \in S}

\* one iteration order for each container of the Authenticator
SerialOrders(a) ==
    LET meta == a.participant_metadata_
    IN  {ord \in [auth : Orders(a.authorized_participants_),
                  used : Orders(a.used_transaction_ids_),
                  states : Orders(DOMAIN a.participant_states_),
                  caps : Orders(DOMAIN a.participant_capabilities_),
                  meta : Orders(DOMAIN meta),
                  keys : [DOMAIN meta -> UNION {Orders(DOMAIN meta[p]) : p \in DOMAIN meta}]] :
            \A p \in DOMAIN meta : ord.keys[p] \in Orders(DOMAIN meta[p])}

\* the loop "if (!first) ss << ','" over a sequence of written items
RECURSIVE Commas(_)
Commas(items) ==
    IF items = <<>> THEN <<>>
    ELSE IF Len(items) = 1 THEN Head(items)
    ELSE Head(items) \o Chars(",") \o Commas(Tail(items))

Quoted(s) == Chars("\"") \o Chars(s) \o Chars("\"")

serialize(a, ord) ==
    Chars("{")
    \o Chars("\"authorized_participants\": [")
    \o Commas([i \in 1..Len(ord.auth) |-> Quoted(ord.auth[i])])
    \o Chars("],")
    \o Chars("\"used_transaction_ids\": [")
    \o Commas([i \in 1..Len(ord.used) |-> Quoted(ord.used[i])])
    \o Chars("],")
    \o Chars("\"participant_states\": {")
    \o Commas([i \in 1..Len(ord.states) |->
           Chars("\"") \o Chars(ord.states[i]) \o Chars("\": \"")
           \o Chars(a.participant_states_[ord.states[i]]) \o Chars("\"")])
    \o Chars("},")
    \o Chars("\"participant_capabilities\": {")
    \o Commas([i \in 1..Len(ord.caps) |->
           LET capabilities == a.participant_capabilities_[ord.caps[i]]
           IN  Chars("\"") \o Chars(ord.caps[i]) \o Chars("\": [")
               \o Commas([j \in 1..Len(capabilities) |-> Quoted(capabilities[j])])
               \o Chars("]")])
    \o Chars("},")
    \o Chars("\"participant_metadata\": {")
    \o Commas([i \in 1..Len(ord.meta) |->
           LET metadata == a.participant_metadata_[ord.meta[i]]
               keys == ord.keys[ord.meta[i]]
           IN  Chars("\"") \o Chars(ord.meta[i]) \o Chars("\": {")
               \o Commas([j \in 1..Len(keys) |->
                      Chars("\"") \o Chars(keys[j]) \o Chars("\": \"")
                      \o Chars(metadata[keys[j]]) \o Chars("\"")])
               \o Chars("}")])
    \o Chars("}")
    \o Chars("}")

\* the while loop that inserts every quoted string of a list
RECURSIVE ParseQuoted(_, _)
ParseQuoted(s, pos) ==
    IF pos >= Len(s) THEN {}
    ELSE LET quote_start == find(s, Chars("\""), pos)
             quote_end == find(s, Chars("\""), quote_start + 1)
         IN  IF quote_start = npos \/ quote_end = npos THEN {}
             ELSE {Join(substr(s, quote_start + 1, quote_end))}
                      \cup ParseQuoted(s, quote_end + 1)

\* the while loop that assigns result.participant_states_[key] = value
RECURSIVE ParseStates(_, _, _)
ParseStates(s, pos, m) ==
    IF pos >= Len(s) THEN m
    ELSE LET key_start == find(s, Chars("\""), pos)
             key_end == find(s, Chars("\""), key_start + 1)
             val_start == find(s, Chars("\""), key_end + 2)
             val_end == find(s, Chars("\""), val_start + 1)
         IN  IF key_start = npos \/ key_end = npos \/ val_start = npos \/ val_end = npos
             THEN m
             ELSE ParseStates(s, val_end + 1,
                      MapPut(m, Join(substr(s, key_start + 1, key_end)),
                             Join(substr(s, val_start + 1, val_end))))

\* capabilities and metadata are not parsed: they stay empty in the result
deserialize(data) ==
    LET auth_start == find(data, Chars("\"authorized_participants\": ["), 0) + 29
        auth_end == find(data, Chars("],"), auth_start)
        auth_data == substr(data, auth_start, auth_end)
        tx_start == find(data, Chars("\"used_transaction_ids\": ["), 0) + 26
        tx_end == find(data, Chars("],"), tx_start)
        tx_data == substr(data, tx_start, tx_end)
        states_start == find(data, Chars("\"participant_states\": {"), 0) + 24
        states_end == find(data, Chars("},"), states_start)
        states_data == substr(data, states_start, states_end)
    IN  [Authenticator EXCEPT
            !.authorized_participants_ = ParseQuoted(auth_data, 0),
            !.used_transaction_ids_ = ParseQuoted(tx_data, 0),
            !.participant_states_ = ParseStates(states_data, 0, <<>>)]

\* Authenticator states to serialize: each participant is absent, registered,
\* registered with metadata, granted a capability, or both
SerialParticipants == {"p1", "p2"}
SerialKinds == {"absent", "plain", "meta", "cap", "both"}

Enrol(em, p, kind) ==
    LET metadata == IF kind \in {"meta", "both"} THEN [k \in {"k"} |-> "v"] ELSE <<>>
        e1 == registerParticipant(em, p, "active", metadata)
    IN  IF kind = "absent" THEN em
        ELSE IF kind \in {"cap", "both"} THEN grantCapability(e1, p, "WRITE")
        ELSE e1

SerialInputs ==
    {LET e2 == Enrol(Enrol(Authenticator, "p1", k1), "p2", k2)
     IN  IF u THEN markTransactionUsed(e2, "t1") ELSE e2 :
         k1 \in SerialKinds, k2 \in SerialKinds, u \in BOOLEAN}

\* two Authenticators answer every query alike
SameAnswers(a, b) ==
    /\ a.authorized_participants_ = b.authorized_participants_
    /\ a.used_transaction_ids_ = b.used_transaction_ids_
    /\ \A p \in SerialParticipants :
          /\ getParticipantState(a, p) = getParticipantState(b, p)
          /\ \A c \in AuthCapabilities : hasCapability(a, p, c) = hasCapability(b, p, c)
          /\ \A k \in MetaKeys :
                getParticipantMetadata(a, p, k) = getParticipantMetadata(b, p, k)

InitSerial ==
    /\ \E u \in GenesisUuids, f \in GenesisPayloads, p \in GenesisPriorities,
          tt \in TxTimes, bt \in BlockTimes :
            blocks_ = ChainSigned(u, f, p, tt, bt)
    /\ entity_manager_ \in SerialInputs
    /\ last = [op |-> "Chain", ret |-> "void", out |-> ""]
    /\ admitted = [id \in TxIds |-> 0]
    /\ calls = NoCalls

SerializeCall ==
    /\ \E ord \in SerialOrders(entity_manager_) :
          last' = [op |-> "serialize", ret |-> "string",
                   out |-> Join(serialize(entity_manager_, ord))]
    /\ UNCHANGED <<blocks_, entity_manager_, admitted>>
    /\ UNCHANGED calls

\* the static deserialize builds a new Authenticator; ret tells whether it
\* answers as the serialized one does
DeserializeCall ==
    /\ \E ord \in SerialOrders(entity_manager_) :
          LET result == deserialize(serialize(entity_manager_, ord))
          IN  last' = [op |-> "deserialize",
                       ret |-> BoolStr(SameAnswers(result, entity_manager_)),
                       out |-> ToString(result.authorized_participants_)]
    /\ UNCHANGED <<blocks_, entity_manager_, admitted>>
    /\ UNCHANGED calls

NextSerial == SerializeCall \/ DeserializeCall

SpecSerial == InitSerial /\ [][NextSerial]_vars

\* C26: for every Authenticator state and every iteration order of its
\* containers, deserialize(serialize(a)) has the participants, states,
\* capabilities, metadata and consumed identifiers of a.
C26_SerializationRoundTrips ==
    \A ord \in SerialOrders(entity_manager_) :
        SameAnswers(deserialize(serialize(entity_manager_, ord)), entity_manager_)

-----------------------------------------------------------------------------
(* Several writers calling addBlock, one call at a time.  Writer w stamps its
   candidates with its own clock, so a stored block tells who appended it. *)

MaxWriters == 2
Writers == 1..MaxWriters

WriterStamp(w) == [sec |-> 2 + w, nanosec |-> 0]

\* the transactions writers submit are signed; one of them is out of range
WriterTxs == {txn \in TxInputs : txn.signature_ # ""}

WriterCandidates(w) == {Block(txns, WriterStamp(w)) : txns \in SeqsUpTo(WriterTxs, MaxTx)}

\* the uuids of the transactions of a block
BlockUuids(b) == {b.transactions_[i].uuid_ : i \in 1..Len(b.transactions_)}

\* admitted counts, for each uuid, the accepted candidates that contain it
WriterAddBlock ==
    /\ Len(blocks_) < MaxBlocks
    /\ \E w \in Writers :
         \E newBlock \in WriterCandidates(w) :
            LET r == addBlock(blocks_, entity_manager_, newBlock)
            IN  /\ blocks_' = r.blocks
                /\ entity_manager_' = r.em
                /\ last' = [op |-> "addBlock", ret |-> BoolStr(r.ret), out |-> r.out]
                /\ admitted' = [id \in TxIds |->
                       IF r.ret /\ id \in BlockUuids(newBlock)
                       THEN admitted[id] + 1 ELSE admitted[id]]
    /\ UNCHANGED calls

NextWriters == WriterAddBlock

SpecWriters == Init /\ [][NextWriters]_vars

\* block i is linked to block i - 1 for every i after the first
Linkage(blocks) ==
    \A i \in 2..Len(blocks) : blocks[i].previous_hash_ = blocks[i - 1].hash_

\* C27: with the calls of addBlock taken one at a time, in any order and by any
\* writer, at most one accepted candidate contains a given uuid, every accepted
\* candidate is stored linked to the tail it was appended to, and the stored
\* blocks are linked.
C27_SerializedWriters ==
    [][last'.op = "addBlock" =>
         /\ \A id \in TxIds : admitted'[id] <= 1
         /\ last'.ret = "true" =>
               /\ Len(blocks_') = Len(blocks_) + 1
               /\ IsPrefix(blocks_, blocks_')
               /\ blocks_'[Len(blocks_')].previous_hash_ = blocks_[Len(blocks_)].hash_
               /\ blocks_'[Len(blocks_')].index_ = blocks_[Len(blocks_)].index_ + 1
         /\ Linkage(blocks_')]_vars

\* a block of writer 2 holding every uuid was accepted, then a block with a
\* consumed uuid was refused
C27_Witness ==
    /\ last.op = "addBlock" /\ last.ret = "false" /\ last.out = DuplicateMsg
    /\ Len(blocks_) = 2
    /\ blocks_[2].timestamp_ = WriterStamp(2)
    /\ BlockUuids(blocks_[2]) = TxIds
    /\ \A id \in TxIds : admitted[id] = 1
    /\ Linkage(blocks_)

-----------------------------------------------------------------------------
(* Candidates with forged headers.  The fields of Block are public: a caller
   sets a nonce and recomputes the hash, and may leave any index_,
   previous_hash_, hash_ or merkle_root_ in the candidate it hands to addBlock. *)

ForgedBlockTimes == {[sec |-> 3, nanosec |-> 1]}
CandidateNonce == 7
Forgeries == {"none", "index_", "previous_hash_", "hash_", "merkle_root_"}

\* the candidate with the caller's nonce and the hash of its own header
Mine(b) ==
    LET mined == [b EXCEPT !.nonce_ = CandidateNonce]
    IN  [mined EXCEPT !.hash_ = calculateHash(mined)]

\* the candidate after the caller has assigned the named public field a value
\* that Block::isValid refuses
Forge(b, field) ==
    CASE field = "none" -> b
      [] field = "index_" -> [b EXCEPT !.index_ = -3]
      [] field = "previous_hash_" -> [b EXCEPT !.previous_hash_ = ""]
      [] field = "hash_" -> [b EXCEPT !.hash_ = ""]
      [] field = "merkle_root_" -> [b EXCEPT !.merkle_root_ = "junk"]

ForgedCandidates ==
    {Forge(Mine(Block(txns, t)), field) :
        txns \in SeqsUpTo(WriterTxs, MaxTx), t \in ForgedBlockTimes, field \in Forgeries}

ForgedAddBlock ==
    /\ Len(blocks_) < MaxBlocks
    /\ \E txns \in SeqsUpTo(WriterTxs, MaxTx), t \in ForgedBlockTimes, field \in Forgeries :
         LET r == addBlock(blocks_, entity_manager_, Forge(Mine(Block(txns, t)), field))
         IN  /\ blocks_' = r.blocks
             /\ entity_manager_' = r.em
             /\ last' = [op |-> "addBlock", ret |-> BoolStr(r.ret), out |-> r.out,
                         forged |-> field]
    /\ UNCHANGED admitted
    /\ UNCHANGED calls

NextForged == ForgedAddBlock

SpecForged == Init /\ [][NextForged]_vars

\* C28: addBlock accepts a candidate iff none of its transactions has a consumed
\* uuid and each of them passes Transaction::isValid; the index_, previous_hash_,
\* hash_ and merkle_root_ the candidate carries make no difference, and a
\* candidate without transactions is accepted.
C28_AcceptanceCondition ==
    \A newBlock \in ForgedCandidates :
        LET txns == newBlock.transactions_
            r == addBlock(blocks_, entity_manager_, newBlock)
        IN  /\ r.ret = (/\ \A i \in 1..Len(txns) :
                              ~isTransactionUsed(entity_manager_, txns[i].uuid_)
                        /\ \A i \in 1..Len(txns) : TxIsValid(txns[i]))
            /\ txns = <<>> => r.ret

\* a candidate without transactions and with an empty hash_ was accepted after
\* a candidate with a forged Merkle root
C28_Witness ==
    /\ last.op = "addBlock" /\ last.ret = "true" /\ last.forged = "hash_"
    /\ Len(blocks_) = 3
    /\ blocks_[3].transactions_ = <<>>
    /\ blocks_[2].transactions_ # <<>>
    /\ UsedIds # {}

\* C29: every stored block has hash_ equal to calculateHash of its own header
\* and merkle_root_ equal to the root of its transactions' strings, whatever
\* header the candidates carried, and an accepted candidate is stored with its
\* own timestamp, nonce and transactions.
C29_StoredBlocksConsistent ==
    /\ \A i \in 1..Len(blocks_) :
          /\ blocks_[i].hash_ = calculateHash(blocks_[i])
          /\ blocks_[i].merkle_root_ = getRoot(txStrings(blocks_[i].transactions_))
    /\ \A newBlock \in ForgedCandidates :
          LET r == addBlock(blocks_, entity_manager_, newBlock)
              stored == r.blocks[Len(r.blocks)]
          IN  r.ret =>
                /\ stored.timestamp_ = newBlock.timestamp_
                /\ stored.nonce_ = newBlock.nonce_
                /\ stored.transactions_ = newBlock.transactions_

\* a candidate of two transactions with a forged Merkle root was stored with
\* the caller's nonce and timestamp
C29_Witness ==
    /\ last.op = "addBlock" /\ last.ret = "true" /\ last.forged = "merkle_root_"
    /\ Len(blocks_) = 3
    /\ Len(blocks_[3].transactions_) = 2
    /\ blocks_[3].nonce_ = CandidateNonce
    /\ blocks_[3].timestamp_ \in ForgedBlockTimes
    /\ blocks_[3].merkle_root_ # "junk"

-----------------------------------------------------------------------------
(* Direct writes to the header of a stored block.  Blocks are built at the
   times of ClockTimes; sec and nanosec are written into the hashed string
   one after the other. *)

ClockTimes == {[sec |-> 1, nanosec |-> 15], [sec |-> 2, nanosec |-> 0]}
HeaderFields == {"index_", "timestamp_", "nonce_", "previous_hash_", "merkle_root_", "hash_"}

\* values a header field can be overwritten with
TamperValues(blocks, field) ==
    CASE field = "index_" -> {-1, 0, 1, 2, 5}
      [] field = "timestamp_" -> ClockTimes \cup {[sec |-> 11, nanosec |-> 5]}
      [] field = "nonce_" -> {0, 7}
      [] field = "previous_hash_" ->
            {"", "junk", "GENESIS"} \cup {blocks[k].hash_ : k \in 1..Len(blocks)}
      [] field = "merkle_root_" ->
            {"", "junk"} \cup {blocks[k].merkle_root_ : k \in 1..Len(blocks)}
      [] field = "hash_" -> {"", "junk"} \cup {blocks[k].hash_ : k \in 1..Len(blocks)}

\* blocks_[i].field = value
TamperHeader(blocks, i, field, value) == [blocks EXCEPT ![i][field] = value]

ClockAddBlock ==
    /\ last.op # "tamper"
    /\ Len(blocks_) < MaxBlocks
    /\ \E txns \in SeqsUpTo(WriterTxs, MaxTx), t \in ClockTimes :
         LET r == addBlock(blocks_, entity_manager_, Block(txns, t))
         IN  /\ blocks_' = r.blocks
             /\ entity_manager_' = r.em
             /\ last' = [op |-> "addBlock", ret |-> BoolStr(r.ret), out |-> r.out]
    /\ UNCHANGED admitted
    /\ UNCHANGED calls

\* one header field of a block after the first, in a valid chain of more than
\* one block, is given a different value
TamperStoredHeader ==
    /\ last.op # "tamper"
    /\ Len(blocks_) > 1
    /\ ChainIsValid(blocks_)
    /\ \E i \in 2..Len(blocks_), field \in HeaderFields :
         \E value \in TamperValues(blocks_, field) \ {blocks_[i][field]} :
            /\ blocks_' = TamperHeader(blocks_, i, field, value)
            /\ last' = [op |-> "tamper", ret |-> field, out |-> ToString(i - 1)]
    /\ UNCHANGED <<entity_manager_, admitted>>
    /\ UNCHANGED calls

NextTamper == ClockAddBlock \/ TamperStoredHeader

SpecTamper == Init /\ [][NextTamper]_vars

\* C30: in a valid chain of more than one block, after one of index_,
\* timestamp_, nonce_, previous_hash_, merkle_root_ or hash_ of a block other
\* than the first was changed to a different value, Chain::isValid is false.
C30_HeaderTamperDetected ==
    last.op = "tamper" => ~ChainIsValid(blocks_)

\* C31: after the payload of a stored transaction was changed, calculateHash of
\* the changed block differs from the hash_ the block stores.
C31_PayloadChangesHash ==
    [][(last'.op = "void" /\ blocks_' # blocks_)
          => calculateHash(blocks_'[1]) # blocks_'[1].hash_]_vars

-----------------------------------------------------------------------------
(* addBlock and validateAndRecordAction on one Chain, with participants that
   hold capabilities *)

NextShared ==
    \/ AddBlock
    \/ RegisterParticipant
    \/ GrantCapability
    \/ ValidateAndRecordAction

SpecShared == Init /\ [][NextShared]_vars

\* validateAndRecordAction returned true for the id, or a block accepted by
\* addBlock holds a transaction with it
AdmittedOrAppended(id) ==
    \/ admitted[id] >= 1
    \/ \E i \in 2..Len(blocks_) : id \in BlockUuids(blocks_[i])

\* C32: once validateAndRecordAction has succeeded for an id, or a block
\* holding the id has been accepted, every candidate block holding the id is
\* refused as a duplicate and validateAndRecordAction fails for the id, for
\* every issuer and capability.
C32_SharedConsumedSet ==
    \A id \in TxIds :
        AdmittedOrAppended(id) =>
            /\ \A newBlock \in Candidates :
                  id \in BlockUuids(newBlock) =>
                      LET r == addBlock(blocks_, entity_manager_, newBlock)
                      IN  ~r.ret /\ r.out = DuplicateMsg /\ r.blocks = blocks_
            /\ \A issuer \in Issuers, cap \in RequiredCapabilities :
                  ~validateAndRecordAction(entity_manager_, issuer, id, cap).ret

\* t1 was admitted by validateAndRecordAction, g came in with a block, and an
\* issuer holding WRITE was then refused
C32_Witness ==
    /\ last.op = "validateAndRecordAction" /\ last.ret = "false"
    /\ admitted["t1"] = 1 /\ admitted["g"] = 0
    /\ Len(blocks_) = 2 /\ BlockUuids(blocks_[2]) = {"g"}
    /\ Holds("p1", "WRITE")
    /\ UsedIds = TxIds

\* C33: the consumed set holds exactly the uuids of the transactions in the
\* blocks accepted by addBlock and the ids for which validateAndRecordAction
\* returned true; right after construction it is empty, so the uuid of the
\* genesis transaction is not in it.
C33_ConsumedSetExactly ==
    /\ UsedIds = {id \in TxIds : AdmittedOrAppended(id)}
    /\ last.op = "Chain" => UsedIds = {}

\* a block with t1 was accepted and the genesis uuid is still not consumed
C33_Witness ==
    /\ last.op = "addBlock" /\ last.ret = "true"
    /\ Len(blocks_) = 2
    /\ BlockUuids(blocks_[1]) = {"g"} /\ BlockUuids(blocks_[2]) = {"t1"}
    /\ \A id \in TxIds : admitted[id] = 0
    /\ UsedIds = {"t1"}

\* C34: addBlock gives the same result, message and blocks for the
\* Authenticator of the chain and for an Authenticator that has the same
\* consumed set and no participant, state, capability or metadata; with no
\* participant registered a candidate of valid transactions with fresh uuids
\* is accepted.
C34_AppendIgnoresAuthorization ==
    LET bare == [Authenticator EXCEPT !.used_transaction_ids_ = UsedIds]
    IN  \A newBlock \in Candidates :
            LET r == addBlock(blocks_, entity_manager_, newBlock)
                s == addBlock(blocks_, bare, newBlock)
                txns == newBlock.transactions_
            IN  /\ r.ret = s.ret /\ r.out = s.out /\ r.blocks = s.blocks
                /\ r.em.used_transaction_ids_ = s.em.used_transaction_ids_
                /\ (/\ entity_manager_.authorized_participants_ = {}
                    /\ \A i \in 1..Len(txns) :
                          TxIsValid(txns[i]) /\ txns[i].uuid_ \notin UsedIds)
                   => r.ret

\* a block was accepted on a chain whose only participant holds WRITE, after
\* an id was consumed by validateAndRecordAction
C34_Witness ==
    /\ last.op = "addBlock" /\ last.ret = "true"
    /\ Holds("p1", "WRITE")
    /\ Len(blocks_) = 2 /\ blocks_[2].transactions_ # <<>>
    /\ \E id \in TxIds : admitted[id] = 1

-----------------------------------------------------------------------------
(* Direct writes to the signature of a stored transaction *)

\* blocks_[i].transactions_[j].signature_ = bytes
TamperSignature(blocks, i, j, bytes) ==
    [blocks EXCEPT ![i].transactions_[j].signature_ = bytes]

\* the signature of one stored transaction is replaced by other bytes
ForgeStoredSignature ==
    /\ last.op # "tamper"
    /\ \E i \in 1..Len(blocks_) :
         \E j \in 1..Len(blocks_[i].transactions_) :
            \E bytes \in ForgedSignatures \ {blocks_[i].transactions_[j].signature_} :
               /\ blocks_' = TamperSignature(blocks_, i, j, bytes)
               /\ last' = [op |-> "tamper", ret |-> "signature_", out |-> ToString(i - 1)]
    /\ UNCHANGED <<entity_manager_, admitted>>
    /\ UNCHANGED calls

NextSignature == ClockAddBlock \/ ForgeStoredSignature

SpecSignature == Init /\ [][NextSignature]_vars

\* C35: replacing the signature of a stored transaction by other non-empty
\* bytes changes no transaction string, no Merkle root and no block hash, so
\* every block that Block::isValid accepted and a chain that Chain::isValid
\* accepted are still accepted.
C35_SignatureNotHashed ==
    [][last'.op = "tamper" =>
         /\ \A i \in 1..Len(blocks_) :
               /\ txStrings(blocks_'[i].transactions_) = txStrings(blocks_[i].transactions_)
               /\ getRoot(txStrings(blocks_'[i].transactions_))
                     = getRoot(txStrings(blocks_[i].transactions_))
               /\ calculateHash(blocks_'[i]) = calculateHash(blocks_[i])
               /\ BlockIsValid(blocks_[i]) => BlockIsValid(blocks_'[i])
         /\ ChainIsValid(blocks_) => ChainIsValid(blocks_')]_vars

\* the signature of a transaction in the last of three blocks was replaced and
\* the chain and the block are still valid
C35_Witness ==
    /\ last.op = "tamper" /\ last.ret = "signature_" /\ last.out = "2"
    /\ Len(blocks_) = 3
    /\ \E j \in 1..Len(blocks_[3].transactions_) :
          blocks_[3].transactions_[j].signature_ \in ForgedSignatures
    /\ BlockIsValid(blocks_[3])
    /\ ChainIsValid(blocks_)

-----------------------------------------------------------------------------
(* One Block<T> whose last transaction is pushed back once more *)

\* blocks_[0].transactions_.push_back(blocks_[0].transactions_.back())
DuplicateLastRecord ==
    /\ Len(blocks_[1].transactions_) <= MaxRecords
    /\ blocks_' = [blocks_ EXCEPT ![1].transactions_ = Append(@, @[Len(@)])]
    /\ last' = [op |-> "push_back", ret |-> "void", out |-> ""]
    /\ UNCHANGED <<entity_manager_, admitted>>
    /\ UNCHANGED calls

NextDuplicate ==
    \/ BlockIsValidCall
    \/ DuplicateLastRecord

SpecDuplicate == InitBlock /\ [][NextDuplicate]_vars

\* C36: when a block holds an odd number n >= 3 of transactions and its last
\* transaction is appended once more, the Merkle root of the transactions is
\* the same; a block that Block::isValid accepted still matches its stored
\* merkle_root_ and hash_ and is still accepted.
C36_DuplicateLastSameRoot ==
    [][(/\ last'.op = "push_back"
        /\ Len(blocks_[1].transactions_) >= 3
        /\ Len(blocks_[1].transactions_) % 2 = 1)
       => /\ getRoot(txStrings(blocks_'[1].transactions_))
                = getRoot(txStrings(blocks_[1].transactions_))
          /\ BlockIsValid(blocks_[1]) =>
                /\ blocks_'[1].merkle_root_ = getRoot(txStrings(blocks_'[1].transactions_))
                /\ blocks_'[1].hash_ = calculateHash(blocks_'[1])
                /\ BlockIsValid(blocks_'[1])]_vars

\* a valid block of five transactions had its last one pushed back again
C36_Witness ==
    /\ last.op = "push_back"
    /\ Len(blocks_[1].transactions_) = 6
    /\ blocks_[1].transactions_[6] = blocks_[1].transactions_[5]
    /\ blocks_[1].merkle_root_ = getRoot(txStrings(SubSeq(blocks_[1].transactions_, 1, 5)))
    /\ BlockIsValid(blocks_[1])

----------------------------------------------------------------------------
(* Two callers inside addBlock with no lock around it.  The body of        *)
(* addBlock is taken in the steps in which it reads and writes the members *)
(* of the Chain: the copy and its link fields (reads blocks_), the         *)
(* duplicate loop with the rebuild and isValid (reads the consumed set),   *)
(* the marking loop (writes the consumed set), push_back (writes blocks_). *)
(* The accesses are unsynchronised, so while one caller is at a writing    *)
(* step and another is inside the body the program may also fail.          *)

RaceCandidates(w) == {Block(<<txn>>, WriterStamp(w)) : txn \in WriterTxs}

InFlight(w) == calls[w].pc \in {"linked", "checked", "marked"}

\* mutant: the duplicate loop also refuses a uuid that another caller has
\* checked and not yet pushed
checkBlock_SeesInFlight(em, linked) ==
    LET rebuilt == buildMerkleTree(linked)
        blockToAdd == [rebuilt EXCEPT !.hash_ = calculateHash(rebuilt)]
        held == UNION {BlockUuids(calls[w].blockToAdd) :
                         w \in {v \in Callers : calls[v].pc \in {"checked", "marked"}}}
    IN  IF AnyTransactionUsed(em, linked.transactions_)
           \/ BlockUuids(linked) \cap held # {}
        THEN [pc |-> "returned", ret |-> FALSE, out |-> "Duplicate transaction detected",
              blockToAdd |-> linked]
        ELSE IF ~BlockIsValid(blockToAdd)
        THEN [pc |-> "returned", ret |-> FALSE,
              out |-> "Invalid block attempted to be added to the blockchain",
              blockToAdd |-> blockToAdd]
        ELSE [pc |-> "checked", blockToAdd |-> blockToAdd]

\* the duplicate loop, the rebuild and isValid of addBlock on the linked copy
checkBlock(em, linked) ==
    LET rebuilt == buildMerkleTree(linked)
        blockToAdd == [rebuilt EXCEPT !.hash_ = calculateHash(rebuilt)]
    IN  IF AnyTransactionUsed(em, linked.transactions_)
        THEN [pc |-> "returned", ret |-> FALSE, out |-> "Duplicate transaction detected",
              blockToAdd |-> linked]
        ELSE IF ~BlockIsValid(blockToAdd)
        THEN [pc |-> "returned", ret |-> FALSE,
              out |-> "Invalid block attempted to be added to the blockchain",
              blockToAdd |-> blockToAdd]
        ELSE [pc |-> "checked", blockToAdd |-> blockToAdd]

RaceLink ==
    /\ Running
    /\ \E w \in Callers :
         /\ calls[w].pc = "idle"
         /\ \E newBlock \in RaceCandidates(w) :
              calls' = [calls EXCEPT ![w] =
                           [pc |-> "linked", blockToAdd |-> Relink(blocks_, newBlock)]]
    /\ UNCHANGED <<blocks_, entity_manager_, last, admitted>>

RaceCheck ==
    /\ Running
    /\ \E w \in Callers :
         /\ calls[w].pc = "linked"
         /\ LET r == checkBlock(entity_manager_, calls[w].blockToAdd)
            IN  /\ calls' = [calls EXCEPT ![w] = r]
                /\ last' = IF r.pc = "returned"
                           THEN [op |-> "addBlock", ret |-> BoolStr(r.ret), out |-> r.out]
                           ELSE last
    /\ UNCHANGED <<blocks_, entity_manager_, admitted>>

RaceMark ==
    /\ Running
    /\ \E w \in Callers :
         /\ calls[w].pc = "checked"
         /\ entity_manager_' =
                MarkAllUsed(entity_manager_, calls[w].blockToAdd.transactions_)
         /\ calls' = [calls EXCEPT ![w].pc = "marked"]
    /\ UNCHANGED <<blocks_, last, admitted>>

RacePush ==
    /\ Running
    /\ \E w \in Callers :
         /\ calls[w].pc = "marked"
         /\ blocks_' = Append(blocks_, calls[w].blockToAdd)
         /\ calls' = [calls EXCEPT ![w] =
                         [pc |-> "returned", ret |-> TRUE, out |-> "Adding block to chain",
                          blockToAdd |-> calls[w].blockToAdd]]
         /\ last' = [op |-> "addBlock", ret |-> "true", out |-> "Adding block to chain"]
         /\ admitted' = [id \in TxIds |->
                IF id \in BlockUuids(calls[w].blockToAdd)
                THEN admitted[id] + 1 ELSE admitted[id]]
    /\ UNCHANGED entity_manager_

\* a write of one caller that overlaps an access of another
RaceCrash ==
    /\ Running
    /\ \E w, v \in Callers :
         /\ w # v
         /\ calls[w].pc \in {"checked", "marked"}
         /\ InFlight(v)
    /\ last' = [op |-> "addBlock", ret |-> "crash", out |-> ""]
    /\ UNCHANGED <<blocks_, entity_manager_, admitted, calls>>

NextRace == RaceLink \/ RaceCheck \/ RaceMark \/ RacePush \/ RaceCrash

SpecRace == Init /\ [][NextRace]_vars

\* block b is stored in the chain after the genesis block
Stored(b) == \E i \in 2..Len(blocks_) : blocks_[i] = b

\* C37: with two callers inside addBlock and no lock, the duplicate loop of a
\* caller looks at the consumed set only: a caller whose uuids are all
\* unconsumed is not refused as a duplicate although another caller has
\* already passed the loop with one of the same uuids and not yet marked it;
\* and two callers that both returned true both have their block in the chain.
C37_CheckAndMarkNotAtomic ==
    /\ \A a, b \in Callers :
         ( /\ a # b
           /\ calls[a].pc = "checked"
           /\ calls[b].pc = "linked"
           /\ BlockUuids(calls[a].blockToAdd) \cap BlockUuids(calls[b].blockToAdd) # {}
           /\ BlockUuids(calls[b].blockToAdd) \cap UsedIds = {} )
         => LET r == checkBlock(entity_manager_, calls[b].blockToAdd)
            IN  r.pc = "returned" => r.out = InvalidMsg
    /\ \A a, b \in Callers :
         ( /\ a # b
           /\ calls[a].pc = "returned" /\ calls[a].ret
           /\ calls[b].pc = "returned" /\ calls[b].ret )
         => Stored(calls[a].blockToAdd) /\ Stored(calls[b].blockToAdd)

\* both callers returned true with the same uuid in their blocks, and the
\* chain holds both blocks behind the genesis block, both linked to it
C37_Witness ==
    /\ Running
    /\ calls[1].pc = "returned" /\ calls[1].ret
    /\ calls[2].pc = "returned" /\ calls[2].ret
    /\ Len(blocks_) = 3
    /\ BlockUuids(blocks_[2]) \cap BlockUuids(blocks_[3]) # {}
    /\ {blocks_[2], blocks_[3]} = {calls[1].blockToAdd, calls[2].blockToAdd}
    /\ blocks_[2] # blocks_[3]
    /\ blocks_[3].previous_hash_ = blocks_[1].hash_
    /\ \E id \in TxIds : admitted[id] = 2

----------------------------------------------------------------------------
(* Registration of a participant that may already be registered and hold   *)
(* capabilities; last names the participant and the state of the call.     *)

ReRegisterParticipant ==
    /\ \E p \in AuthParticipants, s \in AuthStates, m \in AuthMetadataInputs :
         /\ entity_manager_' = registerParticipant(entity_manager_, p, s, m)
         /\ last' = [op |-> "registerParticipant", ret |-> "void", out |-> "",
                     participant_id |-> p, initial_state |-> s]
    /\ UNCHANGED <<blocks_, admitted, calls>>

NextReRegister ==
    \/ ReRegisterParticipant
    \/ AuthGrantCapability
    \/ AuthValidateAndRecordAction

SpecReRegister == InitAuth /\ [][NextReRegister]_vars

\* C38: registering a participant that is already registered keeps the
\* capabilities it was granted: when registerParticipant(p, s2) is called for
\* a registered p, every capability list is as before, so hasCapability(p, c)
\* is still true for each c that p held; getParticipantState(p) is s2; and
\* validateAndRecordAction(p, id, c) succeeds for every id not yet consumed.
C38_ReRegisterKeepsCapabilities ==
    [][(/\ last'.op = "registerParticipant"
        /\ isParticipantAuthorized(entity_manager_, last'.participant_id))
       => LET p == last'.participant_id
          IN  /\ entity_manager_'.participant_capabilities_
                    = entity_manager_.participant_capabilities_
              /\ getParticipantState(entity_manager_', p) = last'.initial_state
              /\ \A c \in AuthCapabilities :
                    hasCapability(entity_manager_, p, c)
                    => /\ hasCapability(entity_manager_', p, c)
                       /\ \A tx_id \in AuthTxIds :
                            ~isTransactionUsed(entity_manager_', tx_id)
                            => validateAndRecordAction(entity_manager_', p, tx_id, c).ret]_vars

\* p1 was registered, granted WRITE and has just been registered again with
\* state "idle": it holds WRITE and an unconsumed id is admitted under WRITE
C38_Witness ==
    /\ last.op = "registerParticipant"
    /\ last.participant_id = "p1" /\ last.initial_state = "idle"
    /\ hasCapability(entity_manager_, "p1", "WRITE")
    /\ getParticipantState(entity_manager_, "p1") = "idle"
    /\ ~isTransactionUsed(entity_manager_, "t1")
    /\ validateAndRecordAction(entity_manager_, "p1", "t1", "WRITE").ret

====
